---- MODULE Spec2Model ----
(***************************************************************************)
(* The ten demonstration scripts of the repository (src/01 .. src/10) as   *)
(* one state machine: a script is a straight-line sequence of steps that   *)
(* acquire a connection scope, send statements to the database engine,     *)
(* read rows back and tear down.  The database engine the scripts talk to  *)
(* is modelled by the operators of the first part (catalog, constraints,   *)
(* sequences, foreign-key actions, views, triggers), the Python control    *)
(* flow (with-blocks, try/except, the top-level except/finally) by the     *)
(* actions of the second part.                                             *)
(*                                                                         *)
(* Encoding of values: a row is a function from column names to values;    *)
(* a column that holds NULL is absent from the row's domain.  Decimal      *)
(* prices are kept in hundredths (0.50 is 50).                             *)
(***************************************************************************)
EXTENDS Integers, Sequences, FiniteSets, TLC

\* ----------------------------------------------------------------- bounds
\* how many times in a row the script is started (python script.py)
MaxRuns == 2
\* how many unexpected errors (connectivity loss and the like) may strike
MaxFaults == 1
\* rows standing for the generated bulk data (range(50_000), range(1,10_001))
BulkRows == 2

\* calls of a timing helper in a row
MaxCalls == 2

\* how many transactions, and how many statements, write blog_posts
MaxStamps == 3

\* how many source rows a normalisation of script 02 is given
MaxRaw == 2

\* ---------------------------------------------------------------- helpers
Range(s) == {s[i] : i \in DOMAIN s}

Restrict(f, S) == [x \in S |-> f[x]]

EmptyMap == [x \in {} |-> x]

\* the row r cut down to the columns cs (DataFrame[[...]])
Project(r, cs) == [c \in (DOMAIN r) \cap cs |-> r[c]]

\* ------------------------------------------------------- engine: catalog
\* column of a CREATE TABLE: dk is the kind of default
\*   "null" (none), "const" (dv), "serial" (nextval), "today" (CURRENT_DATE)
Col(n, dk, dv, nn) == [name |-> n, dk |-> dk, dv |-> dv, nn |-> nn]

Plain(n) == Col(n, "null", "", FALSE)

Serial(n) == Col(n, "serial", "", TRUE)

NoWhere == [col |-> "", op |-> "all", v |-> 0]

\* a relation created by CREATE TABLE
Table(cols, pk, uniq, fks) ==
    [kind |-> "table", cols |-> cols, pk |-> pk, uniq |-> uniq, fks |-> fks,
     rows |-> << >>, oid |-> 0, src |-> "", w |-> NoWhere]

\* a relation created by CREATE [MATERIALIZED] VIEW ... AS SELECT * FROM src WHERE w
View(kind, src, w) ==
    [kind |-> kind, cols |-> << >>, pk |-> {}, uniq |-> {}, fks |-> {},
     rows |-> << >>, oid |-> 0, src |-> src, w |-> w]

\* the empty database: no relation, index, function or trigger
EmptyDb == [rel |-> EmptyMap, idx |-> EmptyMap, fn |-> EmptyMap, trg |-> EmptyMap]

\* a WHERE clause that keeps every row
MatchAll(r, w) == TRUE

\* WHERE col op v
Match(r, w) ==
    CASE w.op = "all" -> TRUE
      [] w.op = "eq"  -> w.col \in DOMAIN r /\ r[w.col] = w.v
      [] w.op = "lt"  -> w.col \in DOMAIN r /\ r[w.col] < w.v
      [] w.op = "gt"  -> w.col \in DOMAIN r /\ r[w.col] > w.v
      \* jsonb containment: col @> '{"skills":[v]}'
      [] w.op = "skill" -> w.col \in DOMAIN r /\ w.v \in Range(r[w.col].skills)

\* a materialized view that re-evaluates its query on each access
RelRowsLive(d, n) ==
    LET t == d.rel[n] IN
    IF t.kind \in {"view", "matview"}
    THEN IF t.src \in DOMAIN d.rel
         THEN SelectSeq(d.rel[t.src].rows, LAMBDA r : Match(r, t.w))
         ELSE << >>
    ELSE t.rows

\* the rows a relation shows: a table and a materialized view show what
\* they store, a view re-evaluates its SELECT on each access
RelRows(d, n) ==
    LET t == d.rel[n] IN
    IF t.kind = "view"
    THEN IF t.src \in DOMAIN d.rel
         THEN SelectSeq(d.rel[t.src].rows, LAMBDA r : Match(r, t.w))
         ELSE << >>
    ELSE t.rows

\* result of a statement: ok, the catalog after it, the sequences after
\* it, the engine's error (when not ok) and the rows it returns
Res(ok, d, sq, err, rows) ==
    [ok |-> ok, d |-> d, sq |-> sq, err |-> err, rows |-> rows]

Ok(d, sq) == Res(TRUE, d, sq, "", << >>)

Fail(d, sq, err) == Res(FALSE, d, sq, err, << >>)
\* ------------------------------------------------ engine: trigger bodies
\* to_tsvector('english', s) for the texts script 07 stores: lower-cased,
\* stop words removed, stemmed
Lexemes(s) ==
    CASE s = "AI in Avengers" -> {"ai", "aveng"}
      [] s = "Iron Man created JARVIS using artificial intelligence." ->
            {"iron", "man", "creat", "jarvi", "use", "artifici", "intellig"}
      [] s = "The Hulk Explained" -> {"hulk", "explain"}
      [] s = "Bruce Banner transforms into the Hulk after gamma radiation." ->
            {"bruce", "banner", "transform", "hulk", "gamma", "radiat"}
      [] s = "Wakanda Tech" -> {"wakanda", "tech"}
      [] s = "Black Panther uses advanced technology in Wakanda." ->
            {"black", "panther", "use", "advanc", "technolog", "wakanda"}
      [] s = "AI Ethics" -> {"ai", "ethic"}
      [] s = "Discussion around AI ethics and its role in society." ->
            {"discuss", "around", "ai", "ethic", "role", "societi"}
      [] s = "Thor and Mythology" -> {"thor", "mytholog"}
      [] s = "Thor is based on Norse mythology and wields a hammer." ->
            {"thor", "base", "nors", "mytholog", "wield", "hammer"}
      [] s = "New AI breakthrough" -> {"new", "ai", "breakthrough"}
      [] s = "Revolutionary AI surpasses human intelligence." ->
            {"revolutionari", "ai", "surpass", "human", "intellig"}
      [] OTHER -> {}

\* r with column c set to v
SetCol(r, c, v) == [x \in (DOMAIN r) \cup {c} |-> IF x = c THEN v ELSE r[x]]

\* r with column c set to NULL
NullCol(r, c) == Restrict(r, (DOMAIN r) \ {c})

\* SET document = to_tsvector('english', title||' '||body); NULL when
\* either operand of || is NULL
SetDocument(r) ==
    IF {"title", "body"} \subseteq DOMAIN r
    THEN SetCol(r, "document", Lexemes(r.title) \cup Lexemes(r.body))
    ELSE NullCol(r, "document")

\* a trigger function that stamps created_at on every operation
FnApplyStampsBoth(body, tgop, r, now) ==
    CASE body = "trg_update_document" -> SetDocument(r)
      [] body = "trg_set_timestamp" ->
            SetCol(SetCol(r, "created_at", now), "updated_at", now)
      [] OTHER -> r

\* the body of a trigger function applied to NEW; tgop is TG_OP, now is NOW()
FnApply(body, tgop, r, now) ==
    CASE body = "trg_update_document" -> SetDocument(r)
      [] body = "trg_set_timestamp" ->
            IF tgop = "INSERT"
            THEN SetCol(SetCol(r, "created_at", now), "updated_at", now)
            ELSE SetCol(r, "updated_at", now)
      [] OTHER -> r

\* the BEFORE INSERT OR UPDATE ... FOR EACH ROW triggers of table tn
TriggersOn(d, tn) == {g \in DOMAIN d.trg : d.trg[g].tbl = tn}

RECURSIVE FireAll(_, _, _, _, _)
FireAll(d, gs, tgop, r, now) ==
    IF gs = {} THEN r
    ELSE LET g == CHOOSE x \in gs : TRUE IN
         FireAll(d, gs \ {g}, tgop,
                 FnApply(d.fn[d.trg[g].fn], tgop, r, now), now)

\* a table whose triggers do not run
FireNone(d, tn, tgop, r, now) == r

Fire(d, tn, tgop, r, now) == FireAll(d, TriggersOn(d, tn), tgop, r, now)

\* ------------------------------------------------------- engine: INSERT
\* a table that enforces no key
KeyClashNever(rows, r, ks) == FALSE

\* whether the row r collides with a stored row on the key columns ks
\* (a key with a NULL column never collides)
KeyClash(rows, r, ks) ==
    /\ ks \subseteq DOMAIN r
    /\ \E i \in DOMAIN rows :
          /\ ks \subseteq DOMAIN rows[i]
          /\ \A k \in ks : rows[i][k] = r[k]

\* whether the foreign key fk of row r points at a stored parent row
FkHolds(d, r, fk) ==
    \/ fk.col \notin DOMAIN r
    \/ /\ fk.ref \in DOMAIN d.rel
       /\ \E i \in DOMAIN d.rel[fk.ref].rows :
             /\ fk.refcol \in DOMAIN d.rel[fk.ref].rows[i]
             /\ d.rel[fk.ref].rows[i][fk.refcol] = r[fk.col]

\* the row INSERT builds from the supplied columns cols and values r: a
\* column left out of the column list takes its default (nextval for a
\* SERIAL), a column without default takes NULL
BuildRow(t, sq, cols, r) ==
    LET has(c) == IF c.name \in cols THEN c.name \in DOMAIN r
                  ELSE c.dk # "null"
        val(c) == IF c.name \in cols THEN r[c.name]
                  ELSE CASE c.dk = "serial" -> sq[t.oid] + 1
                         [] c.dk = "const"  -> c.dv
                         [] c.dk = "today"  -> "today"
        present == {c \in Range(t.cols) : has(c)}
    IN  [n \in {c.name : c \in present} |->
            val(CHOOSE c \in present : c.name = n)]

\* nextval called for a SERIAL column even when the column list supplies it
DrawsSerialAlways(t, cols) == \E c \in Range(t.cols) : c.dk = "serial"

\* whether building the row calls nextval on the table's sequence
DrawsSerial(t, cols) ==
    \E c \in Range(t.cols) : c.dk = "serial" /\ c.name \notin cols

\* a table whose NOT NULL declarations are not enforced
NonNullColsKeyOnly(t) == t.pk

\* the columns that may not hold NULL: NOT NULL and primary key columns
NonNullCols(t) == {c.name : c \in {x \in Range(t.cols) : x.nn}} \cup t.pk

\* INSERT INTO tn (cols) VALUES (r): one row
InsertRow(d, sq, tn, cols, r, now) ==
    IF tn \notin DOMAIN d.rel THEN Fail(d, sq, "undefined_table")
    ELSE IF d.rel[tn].kind # "table" THEN Fail(d, sq, "wrong_object_type")
    ELSE
    LET t   == d.rel[tn]
        sq2 == IF DrawsSerial(t, cols)
               THEN [sq EXCEPT ![t.oid] = @ + 1] ELSE sq
        new == Fire(d, tn, "INSERT", BuildRow(t, sq, cols, r), now)
    IN  IF ~(cols \subseteq {c.name : c \in Range(t.cols)})
        THEN Fail(d, sq, "undefined_column")
        ELSE IF ~(NonNullCols(t) \subseteq DOMAIN new)
        THEN Fail(d, sq2, "not_null_violation")
        ELSE IF (t.pk # {} /\ KeyClash(t.rows, new, t.pk))
                \/ \E u \in t.uniq : KeyClash(t.rows, new, {u})
        THEN Fail(d, sq2, "unique_violation")
        ELSE IF \E fk \in t.fks : ~FkHolds(d, new, fk)
        THEN Fail(d, sq2, "foreign_key_violation")
        ELSE Ok([d EXCEPT !.rel[tn].rows = Append(@, new)], sq2)

\* the rows of one INSERT ... VALUES (..),(..) or of one executemany, in
\* order; the first row that is refused ends the statement
RECURSIVE InsertRows(_, _, _, _, _, _)
InsertRows(d, sq, tn, cols, rs, now) ==
    IF rs = << >> THEN Ok(d, sq)
    ELSE LET one == InsertRow(d, sq, tn, cols, Head(rs), now) IN
         IF one.ok THEN InsertRows(one.d, one.sq, tn, cols, Tail(rs), now)
         ELSE one
\* ---------------------------------------------- engine: DELETE, UPDATE
\* the foreign keys of other tables that reference table tn:
\* <<child table, foreign key>>
Referencing(d, tn) ==
    UNION {{<<c, fk>> : fk \in {f \in d.rel[c].fks : f.ref = tn}} :
              c \in DOMAIN d.rel}

\* whether the child row r references one of the parent rows gone (by fk)
RefersTo(r, fk, gone) ==
    /\ fk.col \in DOMAIN r
    /\ \E i \in DOMAIN gone :
          fk.refcol \in DOMAIN gone[i] /\ gone[i][fk.refcol] = r[fk.col]

\* referential actions that are not carried out
RefActionNone(d, refs, gone, act) == [ok |-> TRUE, d |-> d]

\* the referential action of every foreign key on tn after the parent rows
\* gone were deleted (act = "ondel") or had their key changed ("onupd"):
\* CASCADE deletes the child rows, SET NULL clears their column, and
\* NO ACTION refuses the statement when a child row is left dangling
RECURSIVE RefAction(_, _, _, _)
RefAction(d, refs, gone, act) ==
    IF refs = {} THEN [ok |-> TRUE, d |-> d]
    ELSE LET p    == CHOOSE x \in refs : TRUE
             c    == p[1]
             fk   == p[2]
             hit(r) == RefersTo(r, fk, gone)
             rows == d.rel[c].rows
         IN  CASE fk[act] = "cascade" ->
                    RefAction([d EXCEPT !.rel[c].rows =
                                  SelectSeq(rows, LAMBDA r : ~hit(r))],
                              refs \ {p}, gone, act)
               [] fk[act] = "setnull" ->
                    RefAction([d EXCEPT !.rel[c].rows =
                                  [i \in DOMAIN rows |->
                                     IF hit(rows[i]) THEN NullCol(rows[i], fk.col)
                                     ELSE rows[i]]],
                              refs \ {p}, gone, act)
               [] OTHER ->
                    IF \E i \in DOMAIN rows : hit(rows[i])
                    THEN [ok |-> FALSE, d |-> d]
                    ELSE RefAction(d, refs \ {p}, gone, act)

\* DELETE FROM tn WHERE w
Delete(d, sq, tn, w) ==
    IF tn \notin DOMAIN d.rel THEN Fail(d, sq, "undefined_table")
    ELSE IF d.rel[tn].kind # "table" THEN Fail(d, sq, "wrong_object_type")
    ELSE
    LET rows == d.rel[tn].rows
        gone == SelectSeq(rows, LAMBDA r : Match(r, w))
        d1   == [d EXCEPT !.rel[tn].rows = SelectSeq(rows, LAMBDA r : ~Match(r, w))]
        d2   == RefAction(d1, Referencing(d, tn), gone, "ondel")
    IN  IF d2.ok THEN Ok(d2.d, sq) ELSE Fail(d, sq, "foreign_key_violation")

\* the value an UPDATE assigns: a literal, or the expression
\* to_tsvector('english', title||' '||body)
Assign(r, set) ==
    IF set.expr = "tsvector" THEN SetDocument(r) ELSE SetCol(r, set.col, set.v)

\* UPDATE tn SET set WHERE w
Update(d, sq, tn, set, w, now) ==
    IF tn \notin DOMAIN d.rel THEN Fail(d, sq, "undefined_table")
    ELSE IF d.rel[tn].kind # "table" THEN Fail(d, sq, "wrong_object_type")
    ELSE
    LET t    == d.rel[tn]
        rows == t.rows
        upd(r) == Fire(d, tn, "UPDATE", Assign(r, set), now)
        new  == [i \in DOMAIN rows |->
                    IF Match(rows[i], w) THEN upd(rows[i]) ELSE rows[i]]
        \* parent rows whose referenced key is no longer what it was
        gone == SelectSeq(rows, LAMBDA r : Match(r, w) /\ upd(r) # r)
        dup  == \E i, j \in DOMAIN new :
                   /\ i # j
                   /\ \/ t.pk # {} /\ t.pk \subseteq DOMAIN new[i]
                         /\ t.pk \subseteq DOMAIN new[j]
                         /\ \A k \in t.pk : new[i][k] = new[j][k]
                      \/ \E u \in t.uniq :
                            /\ u \in DOMAIN new[i] /\ u \in DOMAIN new[j]
                            /\ new[i][u] = new[j][u]
        d1   == [d EXCEPT !.rel[tn].rows = new]
        refs == {p \in Referencing(d, tn) : p[2].refcol = set.col}
        d2   == RefAction(d1, refs, gone, "onupd")
    IN  IF \E i \in DOMAIN new : ~(NonNullCols(t) \subseteq DOMAIN new[i])
        THEN Fail(d, sq, "not_null_violation")
        ELSE IF dup THEN Fail(d, sq, "unique_violation")
        ELSE IF ~d2.ok THEN Fail(d, sq, "foreign_key_violation")
        ELSE Ok(d2.d, sq)
\* ---------------------------------------------------------- engine: DDL
\* the relations that stop DROP TABLE tn without CASCADE: the views
\* selecting from it and the tables whose foreign keys reference it
ViewsOn(d, tn) == {v \in DOMAIN d.rel : d.rel[v].kind # "table" /\ d.rel[v].src = tn}

\* the catalog without relation n, its indexes and its triggers
Without(d, n) ==
    [d EXCEPT !.rel = Restrict(@, (DOMAIN @) \ {n}),
              !.idx = Restrict(@, {i \in DOMAIN @ : @[i] # n}),
              !.trg = Restrict(@, {g \in DOMAIN @ : @[g].tbl # n})]

RECURSIVE WithoutAll(_, _)
WithoutAll(d, ns) ==
    IF ns = {} THEN d
    ELSE LET n == CHOOSE x \in ns : TRUE IN WithoutAll(Without(d, n), ns \ {n})

\* DROP TABLE IF EXISTS tn [CASCADE]
DropTable(d, sq, tn, cascade) ==
    IF tn \notin DOMAIN d.rel THEN Ok(d, sq)
    ELSE IF d.rel[tn].kind # "table" THEN Fail(d, sq, "wrong_object_type")
    ELSE IF ~cascade /\ (ViewsOn(d, tn) # {} \/ {p \in Referencing(d, tn) : p[1] # tn} # {})
    THEN Fail(d, sq, "dependent_objects_still_exist")
    ELSE LET d1 == WithoutAll(d, {tn} \cup ViewsOn(d, tn)) IN
         Ok([d1 EXCEPT !.rel = [c \in DOMAIN d1.rel |->
                    [d1.rel[c] EXCEPT !.fks = {f \in @ : f.ref # tn}]]], sq)

\* DROP VIEW IF EXISTS n / DROP MATERIALIZED VIEW IF EXISTS n (kind)
DropView(d, sq, n, kind) ==
    IF n \notin DOMAIN d.rel THEN Ok(d, sq)
    ELSE IF d.rel[n].kind # kind THEN Fail(d, sq, "wrong_object_type")
    ELSE IF ViewsOn(d, n) # {} THEN Fail(d, sq, "dependent_objects_still_exist")
    ELSE Ok(Without(d, n), sq)

\* DROP INDEX IF EXISTS n
DropIndex(d, sq, n) ==
    IF n \in DOMAIN d.rel THEN Fail(d, sq, "wrong_object_type")
    ELSE Ok([d EXCEPT !.idx = Restrict(@, (DOMAIN @) \ {n})], sq)

\* DROP FUNCTION IF EXISTS n()
DropFunction(d, sq, n) ==
    IF \E g \in DOMAIN d.trg : d.trg[g].fn = n
    THEN Fail(d, sq, "dependent_objects_still_exist")
    ELSE Ok([d EXCEPT !.fn = Restrict(@, (DOMAIN @) \ {n})], sq)

\* whether a relation or index of that name exists (one namespace)
NameTaken(d, n) == n \in DOMAIN d.rel \/ n \in DOMAIN d.idx

\* CREATE TABLE tn (...): a SERIAL column owns a new sequence, identified
\* by oid and starting before 1
CreateTable(d, sq, tn, def, oid) ==
    IF NameTaken(d, tn) THEN Fail(d, sq, "duplicate_table")
    ELSE IF \E fk \in def.fks : fk.ref \notin DOMAIN d.rel
    THEN Fail(d, sq, "undefined_table")
    ELSE IF \E c \in Range(def.cols) : c.dk = "serial"
    THEN Ok([d EXCEPT !.rel = (tn :> [def EXCEPT !.oid = oid]) @@ @],
            (oid :> 0) @@ sq)
    ELSE Ok([d EXCEPT !.rel = (tn :> def) @@ @], sq)

\* CREATE VIEW / CREATE MATERIALIZED VIEW n AS SELECT * FROM src WHERE w:
\* the materialized view stores the rows the query returns now
CreateView(d, sq, n, def) ==
    IF NameTaken(d, n) THEN Fail(d, sq, "duplicate_table")
    ELSE IF def.src \notin DOMAIN d.rel THEN Fail(d, sq, "undefined_table")
    ELSE IF def.kind = "matview"
    THEN Ok([d EXCEPT !.rel = (n :> [def EXCEPT !.rows =
                SelectSeq(RelRows(d, def.src), LAMBDA r : Match(r, def.w))]) @@ @], sq)
    ELSE Ok([d EXCEPT !.rel = (n :> def) @@ @], sq)

\* REFRESH MATERIALIZED VIEW n
Refresh(d, sq, n) ==
    IF n \notin DOMAIN d.rel THEN Fail(d, sq, "undefined_table")
    ELSE IF d.rel[n].kind # "matview" THEN Fail(d, sq, "wrong_object_type")
    ELSE Ok([d EXCEPT !.rel[n].rows =
                SelectSeq(RelRows(d, d.rel[n].src),
                          LAMBDA r : Match(r, d.rel[n].w))], sq)

\* CREATE INDEX n ON tn ...
CreateIndex(d, sq, n, tn) ==
    IF tn \notin DOMAIN d.rel THEN Fail(d, sq, "undefined_table")
    ELSE IF NameTaken(d, n) THEN Fail(d, sq, "duplicate_table")
    ELSE Ok([d EXCEPT !.idx = (n :> tn) @@ @], sq)

\* CREATE [OR REPLACE] FUNCTION n() RETURNS trigger
CreateFunction(d, sq, n, replace) ==
    IF n \in DOMAIN d.fn /\ ~replace THEN Fail(d, sq, "duplicate_function")
    ELSE Ok([d EXCEPT !.fn = (n :> n) @@ Restrict(@, (DOMAIN @) \ {n})], sq)

\* CREATE TRIGGER g BEFORE INSERT OR UPDATE ON tn
\*   FOR EACH ROW EXECUTE FUNCTION f()
CreateTrigger(d, sq, g, tn, f) ==
    IF tn \notin DOMAIN d.rel THEN Fail(d, sq, "undefined_table")
    ELSE IF f \notin DOMAIN d.fn THEN Fail(d, sq, "undefined_function")
    ELSE IF g \in DOMAIN d.trg THEN Fail(d, sq, "duplicate_object")
    ELSE Ok([d EXCEPT !.trg = (g :> [tbl |-> tn, fn |-> f]) @@ @], sq)

\* an ALTER that also rewrites the stored values equal to the old default
AlterDefaultRewrites(d, sq, tn, c, dv) ==
    IF tn \notin DOMAIN d.rel THEN Fail(d, sq, "undefined_table")
    ELSE LET was == {d.rel[tn].cols[i].dv : i \in {j \in DOMAIN d.rel[tn].cols :
                                                     d.rel[tn].cols[j].name = c}}
         IN  Ok([d EXCEPT !.rel[tn].cols =
                     [i \in DOMAIN @ |->
                         IF @[i].name = c THEN [@[i] EXCEPT !.dk = "const", !.dv = dv]
                         ELSE @[i]],
                          !.rel[tn].rows =
                     [i \in DOMAIN @ |->
                         IF c \in DOMAIN @[i] /\ @[i][c] \in was
                         THEN [@[i] EXCEPT ![c] = dv] ELSE @[i]]], sq)

\* ALTER TABLE tn ALTER COLUMN c SET DEFAULT dv
AlterDefault(d, sq, tn, c, dv) ==
    IF tn \notin DOMAIN d.rel THEN Fail(d, sq, "undefined_table")
    ELSE Ok([d EXCEPT !.rel[tn].cols =
                [i \in DOMAIN @ |->
                    IF @[i].name = c THEN [@[i] EXCEPT !.dk = "const", !.dv = dv]
                    ELSE @[i]]], sq)
\* ------------------------------------------------------- engine: SELECT
\* the rows a SELECT returns.  q names the shape of the query:
\*   "rows"    SELECT * FROM t WHERE w
\*   "count"   SELECT COUNT(*) AS hits FROM t WHERE w
\*   "fts"     the rows of t whose document matches plainto_tsquery(w.v)
\*   "explain" EXPLAIN ANALYZE: the scan the planner picks for t
\*   "opaque"  a join, set operation, aggregate or window query over the
\*             relations from: the rows of t stand for its result
Query(d, s) ==
    LET base == RelRows(d, s.t) IN
    CASE s.q = "count" ->
            << [hits |-> Len(SelectSeq(base, LAMBDA r : Match(r, s.w)))] >>
      [] s.q = "fts" ->
            SelectSeq(base, LAMBDA r : "document" \in DOMAIN r
                                        /\ s.w.v \in r.document)
      [] s.q = "explain" ->
            << [plan |-> IF \E i \in DOMAIN d.idx : d.idx[i] = s.t
                         THEN "Index Scan" ELSE "Seq Scan"] >>
      [] s.q = "opaque" -> base
      [] OTHER -> SelectSeq(base, LAMBDA r : Match(r, s.w))

Select(d, sq, s) ==
    IF ~(s.from \subseteq DOMAIN d.rel) THEN Fail(d, sq, "undefined_table")
    ELSE Res(TRUE, d, sq, "", Query(d, s))

\* DataFrame.to_sql(tn, conn, if_exists="replace", index=False): drop the
\* table when it exists, create it from the frame's columns, insert the rows
ToSql(d, sq, tn, cols, rows, now) ==
    LET d1 == DropTable(d, sq, tn, FALSE)
        d2 == CreateTable(d1.d, sq, tn,
                          Table([i \in DOMAIN cols |-> Plain(cols[i])], {}, {}, {}), 0)
    IN  IF ~d1.ok THEN d1
        ELSE IF ~d2.ok THEN d2
        ELSE InsertRows(d2.d, sq, tn, Range(cols), rows, now)

\* ------------------------------------------------ engine: one statement
\* the statement s executed on the catalog d: rows are the values bound
\* to an INSERT, oid identifies a sequence it may create, now is NOW().
\* A statement that is refused leaves the catalog as it was; a sequence
\* it advanced stays advanced.
Execute(d, sq, s, rows, oid, now) ==
    CASE s.k = "drop_table"      -> DropTable(d, sq, s.t, s.cascade)
      [] s.k = "drop_view"       -> DropView(d, sq, s.t, "view")
      [] s.k = "drop_matview"    -> DropView(d, sq, s.t, "matview")
      [] s.k = "drop_index"      -> DropIndex(d, sq, s.n)
      [] s.k = "drop_function"   -> DropFunction(d, sq, s.n)
      [] s.k = "create_table"    -> CreateTable(d, sq, s.t, s.def, oid)
      [] s.k = "create_view"     -> CreateView(d, sq, s.t, s.def)
      [] s.k = "refresh"         -> Refresh(d, sq, s.t)
      [] s.k = "create_index"    -> CreateIndex(d, sq, s.n, s.t)
      [] s.k = "create_function" -> CreateFunction(d, sq, s.n, s.replace)
      [] s.k = "create_trigger"  -> CreateTrigger(d, sq, s.n, s.t, s.f)
      [] s.k = "alter_default"   -> AlterDefault(d, sq, s.t, s.col, s.dv)
      [] s.k = "insert"          -> InsertRows(d, sq, s.t, s.cols, rows, now)
      [] s.k = "update"          -> Update(d, sq, s.t, s.set, s.w, now)
      [] s.k = "delete"          -> Delete(d, sq, s.t, s.w)
      [] s.k = "to_sql"          -> ToSql(d, sq, s.t, s.cols, rows, now)
      [] s.k = "select"          -> Select(d, sq, s)

\* a refused statement that also gives back the sequence values it drew
ApplyRestoringSequences(d, sq, s, rows, oid, now) ==
    LET r == Execute(d, sq, s, rows, oid, now) IN
    IF r.ok THEN r ELSE Fail(d, sq, r.err)

\* one statement: a refused statement changes no table (the sequence values
\* it drew stay drawn)
Apply(d, sq, s, rows, oid, now) ==
    LET r == Execute(d, sq, s, rows, oid, now) IN
    IF r.ok THEN r ELSE Fail(d, r.sq, r.err)

\* ---------------------------------------------------- statement builders
DropT(t) == [k |-> "drop_table", t |-> t, cascade |-> FALSE]

DropTC(t) == [k |-> "drop_table", t |-> t, cascade |-> TRUE]

CreateT(t, def) == [k |-> "create_table", t |-> t, def |-> def]

Ins(t, cols, rows) == [k |-> "insert", t |-> t, cols |-> cols, rows |-> rows]

\* a statement whose text was built by formatting its values into it
Formatted(s) == [fmt |-> "values"] @@ s

\* text(s) executed with a mapping or a list of mappings: the statement
\* names its values as :name and the values are bound by name
Named(s) == [bind |-> "name"] @@ s

\* text(f"DROP TABLE IF EXISTS {tbl};"): the table name is formatted into
\* the statement text
DropF(tbl) == [fmt |-> tbl] @@ DropT(tbl)

Sel(t) == [k |-> "select", t |-> t, from |-> {t}, q |-> "rows", w |-> NoWhere]

SelW(t, col, v) ==
    [k |-> "select", t |-> t, from |-> {t}, q |-> "rows",
     w |-> [col |-> col, op |-> "eq", v |-> v]]

SelQ(t, from, q, w) == [k |-> "select", t |-> t, from |-> from, q |-> q, w |-> w]
Upd(t, col, v, wcol, wv) ==
    [k |-> "update", t |-> t, set |-> [col |-> col, v |-> v, expr |-> ""],
     w |-> [col |-> wcol, op |-> "eq", v |-> wv]]

Del(t, wcol, wv) ==
    [k |-> "delete", t |-> t, w |-> [col |-> wcol, op |-> "eq", v |-> wv]]

Fk(col, ref, refcol, ondel, onupd) ==
    [col |-> col, ref |-> ref, refcol |-> refcol, ondel |-> ondel, onupd |-> onupd]

\* ------------------------------------------------------ pandas transforms
\* a frame whose repeated rows are kept
KeepDuplicates(rows) == rows

\* DataFrame.drop_duplicates(): the first occurrence of each row, in order
RECURSIVE DropDuplicates(_)
DropDuplicates(rows) ==
    IF rows = << >> THEN << >>
    ELSE LET front == DropDuplicates(SubSeq(rows, 1, Len(rows) - 1))
             last  == rows[Len(rows)]
         IN  IF last \in Range(front) THEN front ELSE Append(front, last)

\* df[[cols]].to_dict("records")
Records(rows, cols) == [i \in DOMAIN rows |-> Project(rows[i], cols)]

\* one record per item of row["items"].split(","), stripped (the CSV text
\* of the items column is kept as the sequence of its items)
RECURSIVE SplitItems(_)
SplitItems(rows) ==
    IF rows = << >> THEN << >>
    ELSE LET row == Head(rows) IN
         [i \in DOMAIN row.items |->
             [order_id |-> row.order_id, customer |-> row.customer,
              item |-> row.items[i]]] \o SplitItems(Tail(rows))

\* df["discount_price"] = (df["price"] * 0.9).round(2), prices in hundredths
Discount(rows) ==
    [i \in DOMAIN rows |->
        IF "price" \in DOMAIN rows[i]
        THEN SetCol(rows[i], "discount_price", (rows[i].price * 9) \div 10)
        ELSE rows[i]]

\* the value a pure Python step computes from the variables py
PyEval(f, py) ==
    CASE f.k = "records" ->
            IF f.dedup THEN DropDuplicates(Records(py[f.src], f.cols))
            ELSE Records(py[f.src], f.cols)
      [] f.k = "split"    -> SplitItems(py[f.src])
      [] f.k = "discount" -> Discount(py[f.src])

\* ---------------------------------------------------------- script steps
\* a step of a script: op is what it does, s the statement (or transform),
\* var the Python variable it assigns or binds, try whether it stands in
\* the try of a local handler, hd whether it stands in the handler
Step(op, s, var, lbl) ==
    [op |-> op, s |-> s, var |-> var, lbl |-> lbl, try |-> FALSE, hd |-> FALSE]

Nop == [k |-> "none"]

\* with engine.begin() as conn:
WithBegin == Step("begin", Nop, "", "")

\* with engine.connect() as conn:
WithConnect == Step("connect", Nop, "", "")

\* the end of a with block
EndWith == Step("end", Nop, "", "")

\* conn.execute(text(s))
X(s) == Step("exec", s, "", "")

\* conn.execute(text(s), rows) with the rows held by a Python variable
XV(s, var) == Step("exec", s, var, "")

\* cur.executemany(s, rows) on the raw DBAPI cursor of the connection
M(s) == Step("many", s, "", "")

\* var = the rows of a SELECT (pd.read_sql, or execute + fetchall)
R(s, var, lbl) == Step("read", s, var, lbl)

\* var = a value computed in Python
Py(f, var) == Step("py", f, var, "")

\* the block with a second conn.begin() on the connection
ManualBeginTwice(s, lbl) ==
    << WithConnect,
       Step("tbegin", Nop, "", ""),
       Step("tbegin", Nop, "", ""),
       [Step("exec", s, "", lbl) EXCEPT !.try = TRUE],
       [Step("commit", Nop, "", lbl) EXCEPT !.try = TRUE],
       [Step("except", Nop, "", lbl) EXCEPT !.hd = TRUE],
       [Step("rollback", Nop, "", lbl) EXCEPT !.hd = TRUE],
       EndWith >>

\* the block without its try/except
ManualUnguarded(s, lbl) ==
    << WithConnect,
       Step("tbegin", Nop, "", ""),
       Step("exec", s, "", lbl),
       Step("commit", Nop, "", lbl),
       [Step("except", Nop, "", lbl) EXCEPT !.hd = TRUE],
       [Step("rollback", Nop, "", lbl) EXCEPT !.hd = TRUE],
       EndWith >>

\* with engine.connect() as conn:
\*     trans = conn.begin()
\*     try:
\*         conn.execute(text(s)); trans.commit()
\*     except Exception as err:
\*         print(..., err); trans.rollback()
Manual(s, lbl) ==
    << WithConnect,
       Step("tbegin", Nop, "", ""),
       [Step("exec", s, "", lbl) EXCEPT !.try = TRUE],
       [Step("commit", Nop, "", lbl) EXCEPT !.try = TRUE],
       [Step("except", Nop, "", lbl) EXCEPT !.hd = TRUE],
       [Step("rollback", Nop, "", lbl) EXCEPT !.hd = TRUE],
       EndWith >>

\* def show(...): with engine.connect() as conn: pd.read_sql(sql, conn)
Show(s, var) == << WithConnect, R(s, var, ""), EndWith >>
\* ------------------------------------------------------ 01_crud_cycle.py
Heroes01 ==
    Table(<< Serial("id"), Col("name", "null", "", TRUE), Plain("team") >>,
          {"id"}, {}, {})

Script01 ==
    << WithBegin,
       X(DropT("heroes")),
       X(CreateT("heroes", Heroes01)),
       M(Ins("heroes", {"name", "team"},
             << [name |-> "Iron Man", team |-> "Avengers"],
                [name |-> "Captain America", team |-> "Avengers"],
                [name |-> "Wolverine", team |-> "X-Men"] >>)),
       R(Sel("heroes"), "df", "01:4"),
       X(Upd("heroes", "team", "Avengers", "name", "Wolverine")),
       X(Del("heroes", "name", "Iron Man")),
       R(Sel("heroes"), "df", "01:7"),
       X(DropT("heroes")),
       EndWith >>

\* -------------------------------------------- 02_normalization_and_schema.py
Enrollments ==
    Table(<< Plain("student_id"), Plain("course_id"),
             Col("enrolled_on", "today", "", FALSE) >>,
          {"student_id", "course_id"}, {}, {})

EnrollmentRows ==
    << [student_id |-> 101, course_id |-> "CS101"],
       [student_id |-> 101, course_id |-> "MATH202"],
       [student_id |-> 102, course_id |-> "CS101"],
       [student_id |-> 103, course_id |-> "PHYS303"] >>

DuplicateEnrollment ==
    Ins("course_enrollments", {"student_id", "course_id"},
        << [student_id |-> 101, course_id |-> "CS101"] >>)

Script02Part1 ==
    << WithBegin,
       X(DropT("course_enrollments")),
       X(CreateT("course_enrollments", Enrollments)),
       M(Ins("course_enrollments", {"student_id", "course_id"}, EnrollmentRows)),
       EndWith >>
    \o Manual(DuplicateEnrollment, "02:1-4")
    \o << WithBegin,
          R(Sel("course_enrollments"), "df", "02:1-5"),
          X(DropT("course_enrollments")),
          EndWith >>

Script02Part2 ==
    << WithBegin,
       X(DropT("orders_unnormalized")),
       X(DropT("orders_1nf")),
       X(CreateT("orders_unnormalized",
                 Table(<< Serial("order_id"), Plain("customer"), Plain("items") >>,
                       {"order_id"}, {}, {}))),
       M(Ins("orders_unnormalized", {"customer", "items"},
             << [customer |-> "Tony", items |-> << "Arc Reactor", "Suit", "AI" >>],
                [customer |-> "Steve", items |-> << "Shield" >>],
                [customer |-> "Peter", items |-> << "Web-Shooter", "Suit" >>] >>)),
       R(Sel("orders_unnormalized"), "df_raw", "02:2-4"),
       X(CreateT("orders_1nf",
                 Table(<< Plain("order_id"), Plain("customer"), Plain("item") >>,
                       {"order_id", "item"}, {}, {}))),
       Py([k |-> "split", src |-> "df_raw"], "records_1nf"),
       XV(Ins("orders_1nf", {"order_id", "customer", "item"}, << >>), "records_1nf"),
       R(Sel("orders_1nf"), "df_norm", "02:2-7"),
       X(DropT("orders_unnormalized")),
       X(DropT("orders_1nf")),
       EndWith >>

\* rows_2nf
Orders02 ==
    << [order_id |-> 1, product |-> "apple", customer_name |-> "Alice"],
       [order_id |-> 1, product |-> "banana", customer_name |-> "Alice"],
       [order_id |-> 2, product |-> "carrot", customer_name |-> "Bob"],
       [order_id |-> 3, product |-> "donut", customer_name |-> "Carol"],
       [order_id |-> 3, product |-> "fig", customer_name |-> "Carol"] >>

\* block 3 of the script; load is the executemany that fills orders_unnorm_2nf
Normalize2nf(load) ==
    << WithBegin,
       X(DropT("orders_unnorm_2nf")),
       X(DropT("customers")),
       X(DropT("orders_2nf")),
       X(CreateT("orders_unnorm_2nf",
                 Table(<< Plain("order_id"), Plain("product"), Plain("customer_name") >>,
                       {}, {}, {}))),
       load,
       R(Sel("orders_unnorm_2nf"), "df_2nf_raw", "02:3-4"),
       X(CreateT("customers",
                 Table(<< Plain("order_id"), Plain("customer_name") >>,
                       {"order_id"}, {}, {}))),
       X(CreateT("orders_2nf",
                 Table(<< Plain("order_id"), Plain("product") >>,
                       {"order_id", "product"}, {}, {}))),
       Py([k |-> "records", src |-> "df_2nf_raw",
           cols |-> {"order_id", "customer_name"}, dedup |-> TRUE], "df_customers"),
       Py([k |-> "records", src |-> "df_2nf_raw",
           cols |-> {"order_id", "product"}, dedup |-> FALSE], "df_products"),
       XV(Ins("customers", {"order_id", "customer_name"}, << >>), "df_customers"),
       XV(Ins("orders_2nf", {"order_id", "product"}, << >>), "df_products"),
       R(Sel("customers"), "df_cust", "02:3-8"),
       R(Sel("orders_2nf"), "df_prod", "02:3-8"),
       X(DropT("orders_unnorm_2nf")),
       X(DropT("customers")),
       X(DropT("orders_2nf")),
       EndWith >>

Script02Part3 ==
    Normalize2nf(M(Ins("orders_unnorm_2nf", {"order_id", "product", "customer_name"},
                       Orders02)))

\* emp_rows
Employees02 ==
    << [emp_id |-> 1, emp_name |-> "Alice", dept_id |-> 10, dept_name |-> "Engineering"],
       [emp_id |-> 2, emp_name |-> "Bob", dept_id |-> 20, dept_name |-> "Marketing"],
       [emp_id |-> 3, emp_name |-> "Carol", dept_id |-> 10, dept_name |-> "Engineering"],
       [emp_id |-> 4, emp_name |-> "David", dept_id |-> 30, dept_name |-> "Sales"],
       [emp_id |-> 5, emp_name |-> "Eve", dept_id |-> 20, dept_name |-> "Marketing"] >>

\* block 4 of the script; load is the executemany that fills
\* employees_unnormalized
Normalize3nf(load) ==
    << WithBegin,
       X(DropT("employees_3nf")),
       X(DropTC("departments")),
       X(DropT("employees_unnormalized")),
       X(CreateT("employees_unnormalized",
                 Table(<< Plain("emp_id"), Plain("emp_name"), Plain("dept_id"),
                          Plain("dept_name") >>, {}, {}, {}))),
       load,
       R(Sel("employees_unnormalized"), "df_emp_raw", "02:4-4"),
       X(CreateT("departments",
                 Table(<< Plain("dept_id"), Plain("dept_name") >>, {"dept_id"}, {}, {}))),
       Py([k |-> "records", src |-> "df_emp_raw",
           cols |-> {"dept_id", "dept_name"}, dedup |-> TRUE], "dept_records"),
       XV(Ins("departments", {"dept_id", "dept_name"}, << >>), "dept_records"),
       Py([k |-> "records", src |-> "df_emp_raw",
           cols |-> {"emp_id", "emp_name", "dept_id"}, dedup |-> FALSE], "emp_records"),
       X(CreateT("employees_3nf",
                 Table(<< Plain("emp_id"), Plain("emp_name"), Plain("dept_id") >>,
                       {"emp_id"}, {},
                       {Fk("dept_id", "departments", "dept_id", "noaction", "noaction")}))),
       XV(Ins("employees_3nf", {"emp_id", "emp_name", "dept_id"}, << >>), "emp_records"),
       R(Sel("departments"), "df_dept", "02:4-7"),
       R(Sel("employees_3nf"), "df_emp", "02:4-7"),
       X(DropT("employees_3nf")),
       X(DropT("departments")),
       X(DropT("employees_unnormalized")),
       EndWith >>

Script02Part4 ==
    Normalize3nf(M(Ins("employees_unnormalized",
                       {"emp_id", "emp_name", "dept_id", "dept_name"}, Employees02)))

Script02 == Script02Part1 \o Script02Part2 \o Script02Part3 \o Script02Part4

\* ------------------------------------------- 03_constraints_and_defaults.py
Users ==
    Table(<< Serial("user_id"), Plain("name"), Plain("email"), Plain("password") >>,
          {"user_id"}, {"email"}, {})

TestDefaults ==
    Table(<< Serial("id"), Col("name", "const", "Anonymous", FALSE),
             Col("department", "const", "General", FALSE),
             Col("email", "null", "", TRUE) >>,
          {"id"}, {}, {})

Script03Part1 ==
    << WithBegin,
       X(DropT("users")),
       X(CreateT("users", Users)),
       X(Ins("users", {"name", "email", "password"},
             << [name |-> "Alice", email |-> "alice@example.com", password |-> "pass123"],
                [name |-> "Bob", email |-> "bob@example.com", password |-> "secret"] >>)),
       EndWith >>
    \o Manual(Ins("users", {"user_id", "name", "email", "password"},
                  << [user_id |-> 1, name |-> "Eve", email |-> "eve@example.com",
                      password |-> "badpass"] >>), "03:1-4")
    \o Manual(Ins("users", {"name", "email", "password"},
                  << [name |-> "Bob", email |-> "bob@example.com",
                      password |-> "dupemail"] >>), "03:1-5")
    \o << WithBegin,
          R(Sel("users"), "df_users", "03:1-6"),
          X(DropT("users")),
          EndWith >>

Script03Part2 ==
    << WithBegin,
       X(DropT("test_defaults")),
       X(CreateT("test_defaults", TestDefaults)),
       X(Ins("test_defaults", {"name", "department", "email"},
             << [name |-> "Alice", department |-> "Engineering",
                 email |-> "alice@example.com"] >>)),
       X(Ins("test_defaults", {"name", "email"},
             << [name |-> "Bob", email |-> "bob@example.com"] >>)),
       X(Ins("test_defaults", {"email"}, << [email |-> "carol@example.com"] >>)),
       EndWith >>
    \o Manual(Ins("test_defaults", {"name", "department", "email"},
                  << [name |-> "Dave", department |-> "Marketing"] >>), "03:2-6")
    \o << WithBegin,
          R(Sel("test_defaults"), "df_def", "03:2-7"),
          X([k |-> "alter_default", t |-> "test_defaults", col |-> "department",
             dv |-> "Support"]),
          X(Ins("test_defaults", {"name", "email"},
                << [name |-> "Eve", email |-> "eve@example.com"] >>)),
          EndWith,
          WithBegin,
          R(Sel("test_defaults"), "df_final", "03:2-10"),
          X(DropT("test_defaults")),
          EndWith >>

Script03Part3 ==
    << WithBegin,
       X(DropT("course_enrollments")),
       X(CreateT("course_enrollments", Enrollments)),
       X(Ins("course_enrollments", {"student_id", "course_id"}, EnrollmentRows)),
       EndWith >>
    \o Manual(DuplicateEnrollment, "03:3-4")
    \o << WithBegin,
          R(Sel("course_enrollments"), "df_enr", "03:3-5"),
          X(DropT("course_enrollments")),
          EndWith >>

Script03 == Script03Part1 \o Script03Part2 \o Script03Part3
\* ----------------------------------------- 04_indexing_and_performance.py
\* batch: Widget-(i % 500), round(5 + (i % 100) * 0.1, 2), bool(i % 2)
Batch ==
    [j \in 1..BulkRows |->
        [name |-> "Widget-" \o ToString((j - 1) % 500),
         price |-> 500 + ((j - 1) % 100) * 10,
         in_stock |-> ((j - 1) % 2 = 1)]]

\* CREATE TABLE products (id SERIAL PRIMARY KEY, name, price, in_stock)
Products04 ==
    Table(<< Serial("id"), Plain("name"), Plain("price"), Plain("in_stock") >>,
          {"id"}, {}, {})

ByName == Named(SelW("products", "name", "Widget-42"))

Explain ==
    Named(SelQ("products", {"products"}, "explain",
               [col |-> "name", op |-> "eq", v |-> "Widget-42"]))

Script04 ==
    << WithBegin,
       X([k |-> "drop_index", n |-> "idx_products_name"]),
       X(DropT("products")),
       X(CreateT("products", Products04)),
       X(Named(Ins("products", {"name", "price", "in_stock"}, Batch))),
       EndWith,
       WithConnect,
       R(ByName, "_", "04:2-1"),
       R(Explain, "plan", "04:2-2"),
       EndWith,
       WithBegin,
       X([k |-> "create_index", n |-> "idx_products_name", t |-> "products"]),
       EndWith,
       WithConnect,
       R(ByName, "_", "04:3-2"),
       R(Explain, "plan_idx", "04:3-3"),
       EndWith,
       WithConnect,
       R(Sel("products"), "_", "04:4-1"),
       R(Sel("products"), "_pandas", "04:4-2"),
       EndWith,
       WithBegin,
       X([k |-> "drop_index", n |-> "idx_products_name"]),
       X(DropT("products")),
       EndWith >>

\* ------------------------------------------------ 05_relational_modeling.py
Employees05 ==
    Table(<< Serial("employee_id"), Plain("employee_name"), Plain("department") >>,
          {"employee_id"}, {},
          {Fk("department", "departments", "department", "cascade", "setnull")})

Catalog ==
    << [name |-> "Apple", price |-> 50, category |-> "Fruit"],
       [name |-> "Banana", price |-> 30, category |-> "Fruit"],
       [name |-> "Carrot", price |-> 20, category |-> "Vegetable"],
       [name |-> "Donut", price |-> 120, category |-> "Snack"],
       [name |-> "Eggplant", price |-> 90, category |-> "Vegetable"],
       [name |-> "Fig", price |-> 100, category |-> "Fruit"],
       [name |-> "Ginger", price |-> 150, category |-> "Spice"],
       [name |-> "Honey", price |-> 280, category |-> "Sweet"],
       [name |-> "Ice Cream", price |-> 300, category |-> "Dessert"] >>

PricedTable ==
    Table(<< Serial("id"), Plain("name"), Plain("price"), Plain("category") >>,
          {"id"}, {}, {})

ReadBoth(a, b, lbl) ==
    << WithConnect, R(Sel("departments"), a, lbl), R(Sel("employees"), b, lbl), EndWith >>

\* departments dropped while employees still references it
DropParentFirst == << X(DropT("departments")), X(DropT("employees")) >>

\* DROP TABLE IF EXISTS employees; DROP TABLE IF EXISTS departments;
DropChildFirst == << X(DropT("employees")), X(DropT("departments")) >>

Script05 ==
    << WithBegin >>
    \o DropChildFirst
    \o << X(CreateT("departments", Table(<< Plain("department") >>, {"department"}, {}, {}))),
       X(CreateT("employees", Employees05)),
       X(Ins("departments", {"department"},
             << [department |-> "Engineering"], [department |-> "Marketing"] >>)),
       X(Ins("employees", {"employee_name", "department"},
             << [employee_name |-> "Alice", department |-> "Engineering"],
                [employee_name |-> "Bob", department |-> "Engineering"],
                [employee_name |-> "Eve", department |-> "Marketing"] >>)),
       EndWith >>
    \o ReadBoth("dept_before", "emp_before", "05:1-3")
    \o << WithBegin, X(Del("departments", "department", "Marketing")), EndWith >>
    \o ReadBoth("dept_deleted", "emp_deleted", "05:1-4")
    \o << WithBegin,
          X(Upd("departments", "department", "Tech", "department", "Engineering")),
          EndWith >>
    \o ReadBoth("dept_renamed", "emp_renamed", "05:1-5")
    \o << WithBegin,
          X(DropT("products")),
          X(CreateT("products", PricedTable)),
          M(Ins("products", {"name", "price", "category"}, Catalog)),
          EndWith >>
    \o Show(Sel("products"), "df")
    \o Show(SelQ("products", {"products"}, "rows",
                 [col |-> "price", op |-> "gt", v |-> 100]), "df")
    \o Show(SelQ("products", {"products"}, "opaque", NoWhere), "df")
    \o Show(SelQ("products", {"products"}, "opaque", NoWhere), "df")
    \o Show(SelQ("products", {"products"}, "opaque", NoWhere), "df")
    \o << WithBegin >>
    \o DropChildFirst
    \o << X(DropT("products")), EndWith >>

\* --------------------------------------------- 06_analytics_pandas_bridge.py
\* for tbl in ("products_stats", "avengers_power", "people_win", "products_discount")
Tables06 == << "products_stats", "avengers_power", "people_win", "products_discount" >>

Script06 ==
    << WithBegin,
       X(DropT("products_stats")),
       X(CreateT("products_stats", PricedTable)),
       M(Ins("products_stats", {"name", "price", "category"}, Catalog)),
       EndWith,
       WithConnect,
       R(Sel("products_stats"), "df_prod", "06:1"),
       EndWith,
       WithBegin,
       X(DropT("avengers_power")),
       X(CreateT("avengers_power",
                 Table(<< Plain("emp_id"), Plain("name"), Plain("alias"),
                          Plain("power_strength") >>, {}, {}, {}))),
       M(Ins("avengers_power", {"emp_id", "name", "alias", "power_strength"},
             << [emp_id |-> 1, name |-> "Iron Man", alias |-> "Genius Billionaire", power_strength |-> 88],
                [emp_id |-> 2, name |-> "Captain America", alias |-> "Super Soldier", power_strength |-> 79],
                [emp_id |-> 3, name |-> "Hulk", alias |-> "Green Giant", power_strength |-> 92],
                [emp_id |-> 4, name |-> "Black Widow", alias |-> "Spy", power_strength |-> 65],
                [emp_id |-> 5, name |-> "Thor", alias |-> "God of Thunder", power_strength |-> 95],
                [emp_id |-> 6, name |-> "Hawkeye", alias |-> "Archer", power_strength |-> 64] >>)),
       EndWith,
       WithConnect,
       R(Sel("avengers_power"), "df_av", "06:2"),
       R(SelQ("avengers_power", {"avengers_power"}, "opaque", NoWhere), "df_pct", "06:2"),
       EndWith,
       WithBegin,
       X(DropT("people_win")),
       X(CreateT("people_win",
                 Table(<< Serial("id"), Plain("name"), Plain("age"), Plain("gender") >>,
                       {"id"}, {}, {}))),
       M(Ins("people_win", {"name", "age", "gender"},
             << [name |-> "Alice", age |-> 30, gender |-> "F"],
                [name |-> "Bob", age |-> 40, gender |-> "M"],
                [name |-> "Carol", age |-> 35, gender |-> "F"],
                [name |-> "Dave", age |-> 50, gender |-> "M"],
                [name |-> "Eve", age |-> 28, gender |-> "F"] >>)),
       EndWith,
       WithConnect,
       R(SelQ("people_win", {"people_win"}, "opaque", NoWhere), "df_sub", "06:3"),
       R(SelQ("people_win", {"people_win"}, "opaque", NoWhere), "df_win", "06:3"),
       EndWith,
       Py([k |-> "discount", src |-> "df_prod"], "df_discount"),
       WithBegin,
       XV([k |-> "to_sql", t |-> "products_discount",
           cols |-> << "id", "name", "price", "category", "discount_price" >>],
          "df_discount"),
       EndWith,
       WithConnect,
       R(Sel("products_discount"), "df_check", "06:4"),
       EndWith,
       WithBegin >>
    \o [i \in DOMAIN Tables06 |-> X(DropF(Tables06[i]))]
    \o << EndWith >>
\* ------------------------------------------------------ 07_json_and_fts.py
\* rows: {"name": f"Hero {i}", "age": 20+i%30, "skills": [f"skill{i%5}"]}
HeroJson ==
    [i \in 1..BulkRows |->
        [data |-> [name |-> "Hero " \o ToString(i), age |-> 20 + (i % 30),
                   skills |-> << "skill" \o ToString(i % 5) >>]]]

\* WHERE data @> '{"skills":["skill2"]}'
FilterSql ==
    SelQ("avengers_json", {"avengers_json"}, "count",
         [col |-> "data", op |-> "skill", v |-> "skill2"])

Articles ==
    << [title |-> "AI in Avengers",
        body |-> "Iron Man created JARVIS using artificial intelligence."],
       [title |-> "The Hulk Explained",
        body |-> "Bruce Banner transforms into the Hulk after gamma radiation."],
       [title |-> "Wakanda Tech",
        body |-> "Black Panther uses advanced technology in Wakanda."],
       [title |-> "AI Ethics",
        body |-> "Discussion around AI ethics and its role in society."],
       [title |-> "Thor and Mythology",
        body |-> "Thor is based on Norse mythology and wields a hammer."] >>

\* plainto_tsquery('english','AI') matched against document
Search == SelQ("articles", {"articles"}, "fts", [col |-> "document", op |-> "fts", v |-> "ai"])

\* the INSERT issued on the outer connection conn
InsertOnConn ==
    << XV(Named(Ins("articles", {"title", "body"},
                    << [title |-> "New AI breakthrough",
                        body |-> "Revolutionary AI surpasses human intelligence."] >>)), "") >>

\* with engine.begin() as c2: c2.execute(text("INSERT INTO articles ..."), {...})
InsertOnC2 == << WithBegin >> \o InsertOnConn \o << EndWith >>

Script07 ==
    << WithBegin,
       X(DropT("avengers_json")),
       X(CreateT("avengers_json",
                 Table(<< Serial("id"), Plain("data") >>, {"id"}, {}, {}))),
       M(Ins("avengers_json", {"data"}, HeroJson)),
       R(FilterSql, "pre", "07:1"),
       X([k |-> "create_index", n |-> "idx_aj_data", t |-> "avengers_json"]),
       R(FilterSql, "post", "07:1"),
       EndWith,
       WithBegin,
       X(DropTC("articles")),
       X(CreateT("articles",
                 Table(<< Serial("id"), Plain("title"), Plain("body"), Plain("document") >>,
                       {"id"}, {}, {}))),
       M(Ins("articles", {"title", "body"}, Articles)),
       X([k |-> "update", t |-> "articles",
          set |-> [col |-> "document", v |-> 0, expr |-> "tsvector"], w |-> NoWhere]),
       X([k |-> "create_index", n |-> "idx_articles_doc", t |-> "articles"]),
       X([k |-> "drop_function", n |-> "trg_update_document"]),
       X([k |-> "create_function", n |-> "trg_update_document", replace |-> FALSE]),
       X([k |-> "create_trigger", n |-> "tsvector_update", t |-> "articles",
          f |-> "trg_update_document"]),
       EndWith,
       WithConnect,
       R(Sel("articles"), "_list", "07:list"),
       R(Search, "df_ai", "07:search1") >>
    \o InsertOnC2
    \o << R(Search, "df_ai2", "07:search2"),
          EndWith,
          WithBegin,
          X(DropT("avengers_json")),
          X(DropT("articles")),
          EndWith >>

\* ----------------------------------------- 08_uuid_and_materialized_view.py
\* uuid.uuid4(): five identifiers, distinct from one another
Students ==
    << [id |-> "uuid-1", name |-> "Alice", major |-> "Math"],
       [id |-> "uuid-2", name |-> "Bob", major |-> "CS"],
       [id |-> "uuid-3", name |-> "Carol", major |-> "Physics"],
       [id |-> "uuid-4", name |-> "Dave", major |-> "Chemistry"],
       [id |-> "uuid-5", name |-> "Eve", major |-> "Biology"] >>

Cheap == [col |-> "price", op |-> "lt", v |-> 100]

\* a setup and cleanup that drop the table but not the views over it
DropTableOnly == << X(DropT("products")) >>

DropViews ==
    << X([k |-> "drop_matview", t |-> "cheap_products_mv"]),
       X([k |-> "drop_view", t |-> "cheap_products_view"]),
       X(DropT("products")) >>

ShowViews(tag) ==
    << WithConnect,
       R(Sel("cheap_products_view"), "df_v", tag),
       R(Sel("cheap_products_mv"), "df_mv", tag),
       EndWith >>

Script08 ==
    << WithBegin,
       X(DropT("students_uuid")),
       X(CreateT("students_uuid",
                 Table(<< Plain("id"), Col("name", "null", "", TRUE), Plain("major") >>,
                       {"id"}, {}, {}))),
       X(Named(Ins("students_uuid", {"id", "name", "major"}, Students))),
       R(Sel("students_uuid"), "df_stu", "08:1"),
       EndWith,
       WithBegin >>
    \o DropViews
    \o << X(CreateT("products",
                    Table(<< Serial("id"), Plain("name"), Plain("price") >>,
                          {"id"}, {}, {}))),
          M(Ins("products", {"name", "price"},
                << [name |-> "Hammer", price |-> 50], [name |-> "Shield", price |-> 150],
                   [name |-> "Suit", price |-> 500], [name |-> "Helmet", price |-> 90],
                   [name |-> "Goggles", price |-> 40], [name |-> "Boots", price |-> 110] >>)),
          X([k |-> "create_view", t |-> "cheap_products_view",
             def |-> View("view", "products", Cheap)]),
          X([k |-> "create_view", t |-> "cheap_products_mv",
             def |-> View("matview", "products", Cheap)]),
          EndWith >>
    \o ShowViews("08:initial")
    \o << WithBegin, X(Upd("products", "price", 120, "name", "Helmet")), EndWith >>
    \o ShowViews("08:stale")
    \o << WithBegin, X([k |-> "refresh", t |-> "cheap_products_mv"]), EndWith >>
    \o ShowViews("08:refreshed")
    \o << WithBegin >> \o DropViews \o << X(DropT("students_uuid")), EndWith >>

\* ------------------------------------------ 09_joins_and_set_operations.py
NameTable(c) == Table(<< Plain("name"), Plain(c) >>, {}, {}, {})

Names(ns) == [i \in DOMAIN ns |-> [name |-> ns[i]]]

Script09 ==
    << WithBegin,
       X(DropT("abilities")),
       X(DropT("heroes")),
       X(CreateT("heroes",
                 Table(<< Serial("id"), Plain("name"), Plain("team") >>, {"id"}, {}, {}))),
       X(CreateT("abilities", NameTable("ability"))),
       M(Ins("heroes", {"name", "team"},
             << [name |-> "Iron Man", team |-> "Avengers"],
                [name |-> "Thor", team |-> "Avengers"],
                [name |-> "Spider-Man", team |-> "Solo"],
                [name |-> "Hawkeye", team |-> "Avengers"] >>)),
       M(Ins("abilities", {"name", "ability"},
             << [name |-> "Iron Man", ability |-> "Powered Armor"],
                [name |-> "Thor", ability |-> "Thunder God"],
                [name |-> "Hulk", ability |-> "Super Strength"],
                [name |-> "Vision", ability |-> "Density Control"] >>)),
       R(SelQ("abilities", {"heroes", "abilities"}, "opaque", NoWhere), "df_right", "09:1"),
       R(SelQ("abilities", {"heroes", "abilities"}, "opaque", NoWhere), "df_full", "09:1"),
       EndWith,
       WithBegin,
       X(DropT("group_a")),
       X(DropT("group_b")),
       X(CreateT("group_a", Table(<< Plain("name") >>, {}, {}, {}))),
       X(CreateT("group_b", Table(<< Plain("name") >>, {}, {}, {}))),
       M(Ins("group_a", {"name"}, Names(<< "Iron Man", "Thor", "Hulk", "Vision" >>))),
       M(Ins("group_b", {"name"}, Names(<< "Hulk", "Black Widow", "Iron Man", "Falcon" >>))),
       EndWith,
       WithConnect,
       R(SelQ("group_a", {"group_a", "group_b"}, "opaque", NoWhere), "df_union", "09:2"),
       R(SelQ("group_a", {"group_a", "group_b"}, "opaque", NoWhere), "df_inter", "09:2"),
       R(SelQ("group_a", {"group_a", "group_b"}, "opaque", NoWhere), "df_except", "09:2"),
       EndWith,
       WithBegin,
       X(DropT("power_levels")),
       X(CreateT("power_levels", NameTable("level"))),
       M(Ins("power_levels", {"name", "level"},
             << [name |-> "Iron Man", level |-> 85], [name |-> "Thor", level |-> 95],
                [name |-> "Hulk", level |-> 90], [name |-> "Hawkeye", level |-> 70] >>)),
       EndWith,
       WithConnect,
       R(SelQ("power_levels", {"power_levels"}, "opaque", NoWhere), "df_agg", "09:3"),
       EndWith,
       WithBegin,
       X(DropT("power_levels")),
       X(DropT("group_a")),
       X(DropT("group_b")),
       X(DropT("abilities")),
       X(DropT("heroes")),
       EndWith >>

\* ------------------------------------------- 10_trigger_audit_null_sort.py
Script10 ==
    << WithBegin,
       X(DropT("blog_posts")),
       X([k |-> "drop_function", n |-> "trg_set_timestamp"]),
       X(CreateT("blog_posts",
                 Table(<< Serial("id"), Plain("title"), Plain("body"),
                          Plain("created_at"), Plain("updated_at") >>, {"id"}, {}, {}))),
       X([k |-> "create_function", n |-> "trg_set_timestamp", replace |-> TRUE]),
       X([k |-> "create_trigger", n |-> "ts_audit", t |-> "blog_posts",
          f |-> "trg_set_timestamp"]),
       X(Named(Ins("blog_posts", {"title", "body"},
                   << [title |-> "Hello", body |-> "First post"],
                      [title |-> "News", body |-> "Breaking"],
                      [title |-> "Tips", body |-> "Useful tips"] >>))),
       R(Sel("blog_posts"), "df_posts", "10:1-2"),
       EndWith,
       WithBegin,
       X(DropT("salaries")),
       X(CreateT("salaries",
                 Table(<< Plain("name"), Plain("base"), Plain("bonus") >>, {}, {}, {}))),
       M(Ins("salaries", {"name", "base", "bonus"},
             << [name |-> "Alice", base |-> 5000, bonus |-> 500],
                [name |-> "Bob", base |-> 4500],
                [name |-> "Carol", bonus |-> 700] >>)),
       EndWith,
       WithConnect,
       R(SelQ("salaries", {"salaries"}, "opaque", NoWhere), "df_null", "10:2"),
       EndWith,
       WithBegin,
       X(DropT("tasks")),
       X(CreateT("tasks",
                 Table(<< Serial("id"), Plain("title"), Plain("priority") >>,
                       {"id"}, {}, {}))),
       M(Ins("tasks", {"title", "priority"},
             << [title |-> "Deploy", priority |-> 1],
                [title |-> "Code Review", priority |-> 2],
                [title |-> "Refactor"],
                [title |-> "Write Docs", priority |-> 3],
                [title |-> "Meeting"] >>)),
       EndWith,
       WithConnect,
       R(SelQ("tasks", {"tasks"}, "opaque", NoWhere), "df_sort", "10:3"),
       R(SelQ("tasks", {"tasks"}, "opaque", NoWhere), "df_case", "10:3"),
       EndWith,
       WithBegin,
       X(DropT("tasks")),
       X(DropT("salaries")),
       X(DropT("blog_posts")),
       EndWith >>

\* what an INSERT may say about one column: leave it out of the column
\* list, or list it with NULL, with the empty string or with a text
Given == {"omitted", "null", "", "x"}

\* the column list and the parameters of the INSERT that says g[c] about
\* column c
ColumnList(g) == {c \in DOMAIN g : g[c] # "omitted"}

Params(g) == [c \in {x \in DOMAIN g : g[x] \notin {"omitted", "null"}} |-> g[c]]

\* INSERTs for the manual transaction block [2-6] of script 03: the
\* script's own (a name, a department, NULL for email) and three others,
\* two of which the table accepts
Attempts ==
    << [name |-> "x", department |-> "x", email |-> "null"],
       [name |-> "x", department |-> "omitted", email |-> "x"],
       [name |-> "omitted", department |-> "omitted", email |-> "x"],
       [name |-> "x", department |-> "null", email |-> "omitted"] >>

\* block [2-6] of script 03 with the k-th of these INSERTs
AttemptProg(k) ==
    Manual(Ins("test_defaults", ColumnList(Attempts[k]), << Params(Attempts[k]) >>),
           "03:2-6")

\* the steps of script n (01 .. 10); 11 to 14, block [2-6] of script 03 on
\* its own; 20 and 30, blocks 3 and 4 of script 02 on their own, the source
\* rows bound from the Python variable rows_2nf or emp_rows
Prog(n) ==
    CASE n = 1 -> Script01 [] n = 2 -> Script02 [] n = 3 -> Script03
      [] n = 4 -> Script04 [] n = 5 -> Script05 [] n = 6 -> Script06
      [] n = 7 -> Script07 [] n = 8 -> Script08 [] n = 9 -> Script09
      [] n = 10 -> Script10
      [] n > 10 /\ n < 20 -> AttemptProg(n - 10)
      [] n = 20 -> Normalize2nf([M(Ins("orders_unnorm_2nf",
                                       {"order_id", "product", "customer_name"}, << >>))
                                    EXCEPT !.var = "rows_2nf"])
      [] n = 30 -> Normalize3nf([M(Ins("employees_unnormalized",
                                       {"emp_id", "emp_name", "dept_id", "dept_name"}, << >>))
                                    EXCEPT !.var = "emp_rows"])

Scripts == 1..10
\* ===================================================== the script runner
VARIABLES
    db,       \* the committed content of the database
    sq,       \* last value of each sequence, by oid (not transactional)
    runs,     \* how many runs were started
    script,   \* the script being run (0 before the first run)
    pc,       \* index of the next step of Prog(script)
    phase,    \* "idle", "body", "raise" (an exception propagates),
              \* "finally", "done"
    stack,    \* the open connection scopes, innermost last
    exc,      \* the exception raised and not yet handled
    py,       \* the Python variables holding rows
    msgs,     \* the errors printed by the handlers of this run
    stat,     \* counters of this run: connections and transactions
    pool,     \* the engine's connection pool
    faults,   \* unexpected errors that struck so far
    visited,  \* the steps this run reached
    pre,      \* the content of the database when this run started
    log       \* the operations of the timing helper call under way, in the
              \* order they were performed

vars == << db, sq, runs, script, pc, phase, stack, exc, py, msgs, stat, pool,
           faults, visited, pre, log >>

NoExc == [kind |-> "none", msg |-> ""]

ZeroStat ==
    [acquired |-> 0, released |-> 0, begun |-> 0, committed |-> 0,
     rolledback |-> 0, disposed |-> 0]

Init ==
    /\ db = EmptyDb
    /\ sq = EmptyMap
    /\ runs = 0
    /\ script = 0
    /\ pc = 0
    /\ phase = "idle"
    /\ stack = << >>
    /\ exc = NoExc
    /\ py = EmptyMap
    /\ msgs = << >>
    /\ stat = ZeroStat
    /\ pool = [idle |-> 0, out |-> 0]
    /\ faults = 0
    /\ visited = {}
    /\ pre = EmptyDb
    /\ log = << >>

Len0(n) == Len(Prog(n))

InBody == phase = "body" /\ pc \in 1..Len0(script)

Cur == Prog(script)[pc]

Top == stack[Len(stack)]

\* what a statement on the innermost connection sees: its own pending
\* writes, else what is committed
CurView == IF Top.dirty THEN Top.view ELSE db

\* the step after step i in normal flow: the steps of a handler are
\* entered only by an exception
NextPc(n, i) ==
    IF Prog(n)[i].hd THEN i + 1
    ELSE CHOOSE j \in (i + 1)..(Len0(n) + 1) :
            /\ j = Len0(n) + 1 \/ ~Prog(n)[j].hd
            /\ \A m \in (i + 1)..(j - 1) : Prog(n)[m].hd

\* the except clause guarding step i
Handler(n, i) ==
    CHOOSE j \in (i + 1)..Len0(n) :
        /\ Prog(n)[j].op = "except"
        /\ \A m \in (i + 1)..(j - 1) : Prog(n)[m].op # "except"

\* identifier of a sequence created by the step at pc of this run
Oid == runs * 1000 + pc

\* the oids of the sequences owned by tables of catalog d
Oids(d) == {d.rel[t].oid : t \in DOMAIN d.rel} \ {0}

\* the sequences that still belong to a table, committed or pending
Live(s, d, st) ==
    Restrict(s, (DOMAIN s) \cap
                (Oids(d) \cup UNION {Oids(st[i].view) : i \in DOMAIN st}))

\* the exception a refused statement surfaces as
DbError(err) ==
    [kind |-> IF err \in {"not_null_violation", "unique_violation",
                          "foreign_key_violation"}
              THEN "IntegrityError" ELSE "ProgrammingError",
     msg |-> err]

\* whether "except Exception" takes the exception: KeyboardInterrupt is
\* a BaseException that is not an Exception
IsException(e) == e.kind # "KeyboardInterrupt"

\* an exception that no local handler takes
RaiseOut(e) == exc' = e /\ pc' = pc /\ phase' = "raise"

\* an exception raised by the step at pc: taken by the local handler when
\* the step stands in a try, else it leaves the enclosing scopes
Raise(e) ==
    /\ exc' = e
    /\ IF Cur.try /\ IsException(e)
       THEN pc' = Handler(script, pc) /\ phase' = "body"
       ELSE pc' = pc /\ phase' = "raise"

\* QueuePool: a connection checked out / returned
CheckOut(p) ==
    [idle |-> IF p.idle > 0 THEN p.idle - 1 ELSE 0, out |-> p.out + 1]

CheckIn(p) == [idle |-> p.idle + 1, out |-> p.out - 1]

\* a scope just entered; engine.begin() opens its transaction at once
NewScope(kind, at, n) ==
    [kind |-> kind, at |-> at, intx |-> (kind = "begin"), dirty |-> FALSE,
     view |-> EmptyDb, t0 |-> IF kind = "begin" THEN n ELSE 0]

\* a commit or rollback that leaves the transaction open
EndedStillOpen(sc) == sc

\* the scope once its transaction has ended
Ended(sc) == [sc EXCEPT !.intx = FALSE, !.dirty = FALSE, !.view = EmptyDb, !.t0 = 0]

\* the scope with a transaction open (autobegin on first use)
InTx(sc, n) == IF sc.intx THEN sc ELSE [sc EXCEPT !.intx = TRUE, !.t0 = n]

\* a COMMIT that publishes nothing
CommittedNothing(sc, d) == d

\* what is committed after COMMIT on scope sc
Committed(sc, d) == IF sc.dirty THEN sc.view ELSE d

\* an engine.begin() block that commits whether or not its body raised
ExitCommitsAlways(sc, raised) == sc.kind = "begin"

\* whether leaving a with block commits: engine.begin() commits when the
\* body completed, and rolls back when it raised; engine.connect() never
\* commits
ExitCommits(sc, raised) == sc.kind = "begin" /\ ~raised

\* a with block that keeps its connection when its body raised
ExitReleasesOnSuccess(sc, raised) == ~raised

\* whether leaving a with block releases the connection
ExitReleases(sc, raised) == TRUE

\* ------------------------------------------------------------- actions
\* python NN_script.py: the module creates its engine and enters the try.
\* The same script is started again after a run has ended.
StartRun(n) ==
    /\ phase \in {"idle", "done"}
    /\ runs < MaxRuns
    /\ runs = 0 \/ n = script
    /\ runs' = runs + 1
    /\ script' = n
    /\ pc' = 1
    /\ phase' = "body"
    /\ stack' = << >>
    /\ exc' = NoExc
    /\ py' = EmptyMap
    /\ msgs' = << >>
    /\ stat' = ZeroStat
    /\ pool' = [idle |-> 0, out |-> 0]
    /\ visited' = {}
    /\ pre' = db
    /\ UNCHANGED << db, sq, faults, log >>

Advance == pc' = NextPc(script, pc) /\ visited' = visited \cup {pc}

\* with engine.begin() as conn: / with engine.connect() as conn:
Enter ==
    /\ InBody
    /\ Cur.op \in {"begin", "connect"}
    /\ stack' = Append(stack, NewScope(Cur.op, pc, stat.begun + 1))
    /\ pool' = CheckOut(pool)
    /\ stat' = [stat EXCEPT !.acquired = @ + 1,
                            !.begun = IF Cur.op = "begin" THEN @ + 1 ELSE @]
    /\ Advance
    /\ UNCHANGED << db, sq, runs, script, phase, exc, py, msgs, faults, pre, log >>

\* trans = conn.begin()
TransBegin ==
    /\ InBody
    /\ Cur.op = "tbegin"
    /\ visited' = visited \cup {pc}
    /\ IF Top.intx
       THEN /\ Raise([kind |-> "InvalidRequestError", msg |-> "transaction already begun"])
            /\ UNCHANGED << stack, stat >>
       ELSE /\ stack' = [stack EXCEPT ![Len(stack)] = InTx(@, stat.begun + 1)]
            /\ stat' = [stat EXCEPT !.begun = @ + 1]
            /\ pc' = NextPc(script, pc)
            /\ UNCHANGED << phase, exc >>
    /\ UNCHANGED << db, sq, runs, script, py, msgs, pool, faults, pre, log >>

\* the rows a statement binds: literal, or held by a Python variable
Bound(st) ==
    IF st.var # "" THEN py[st.var]
    ELSE IF "rows" \in DOMAIN st.s THEN st.s.rows ELSE << >>

\* conn.execute(...) and cur.executemany(...): the statement runs in the
\* transaction of the connection (begun on first use); a refused statement
\* raises
ExecStmt ==
    /\ InBody
    /\ Cur.op \in {"exec", "many"}
    /\ visited' = visited \cup {pc}
    /\ LET sc == InTx(Top, stat.begun + 1)
           r  == Apply(CurView, sq, Cur.s, Bound(Cur), Oid, sc.t0)
       IN  /\ stat' = [stat EXCEPT !.begun = IF Top.intx THEN @ ELSE @ + 1]
           /\ sq' = r.sq
           /\ IF r.ok
              THEN /\ stack' = [stack EXCEPT ![Len(stack)] =
                                   [sc EXCEPT !.dirty = TRUE, !.view = r.d]]
                   /\ pc' = NextPc(script, pc)
                   /\ UNCHANGED << phase, exc >>
              ELSE /\ stack' = [stack EXCEPT ![Len(stack)] = sc]
                   /\ Raise(DbError(r.err))
    /\ UNCHANGED << db, runs, script, py, msgs, pool, faults, pre, log >>

\* pd.read_sql(sql, conn) / conn.execute(...).fetchall(): the rows of a
\* SELECT assigned to a Python variable
ReadSql ==
    /\ InBody
    /\ Cur.op = "read"
    /\ visited' = visited \cup {pc}
    /\ LET sc == InTx(Top, stat.begun + 1)
           r  == Apply(CurView, sq, Cur.s, << >>, 0, sc.t0)
       IN  /\ stat' = [stat EXCEPT !.begun = IF Top.intx THEN @ ELSE @ + 1]
           /\ stack' = [stack EXCEPT ![Len(stack)] = sc]
           /\ IF r.ok
              THEN /\ py' = (Cur.var :> r.rows) @@ py
                   /\ pc' = NextPc(script, pc)
                   /\ UNCHANGED << phase, exc >>
              ELSE /\ Raise(DbError(r.err))
                   /\ UNCHANGED py
    /\ UNCHANGED << db, sq, runs, script, msgs, pool, faults, pre, log >>

\* a pandas transformation of rows already read
PyStep ==
    /\ InBody
    /\ Cur.op = "py"
    /\ py' = (Cur.var :> PyEval(Cur.s, py)) @@ py
    /\ Advance
    /\ UNCHANGED << db, sq, runs, script, phase, stack, exc, msgs, stat, pool, faults, pre, log >>

\* except Exception as err: print(..., err)
Except ==
    /\ InBody
    /\ Cur.op = "except"
    /\ msgs' = Append(msgs, [by |-> "local", at |-> Cur.lbl, kind |-> exc.kind,
                             msg |-> exc.msg])
    /\ exc' = NoExc
    /\ Advance
    /\ UNCHANGED << db, sq, runs, script, phase, stack, py, stat, pool, faults, pre, log >>

\* trans.commit() in the try, trans.rollback() in the handler: the
\* transaction of the connection ends, its writes published or discarded
TransEnd ==
    /\ InBody
    /\ Cur.op \in {"commit", "rollback"}
    /\ db' = IF Cur.op = "commit" THEN Committed(Top, db) ELSE db
    /\ stack' = [stack EXCEPT ![Len(stack)] = Ended(@)]
    /\ sq' = Live(sq, db', stack')
    /\ stat' = IF Cur.op = "commit"
               THEN [stat EXCEPT !.committed = @ + 1]
               ELSE [stat EXCEPT !.rolledback = @ + 1]
    /\ Advance
    /\ UNCHANGED << runs, script, phase, exc, py, msgs, pool, faults, pre, log >>

\* the innermost scope is left (raised: by an exception): its open
\* transaction is committed or rolled back, its connection released
Leave(raised) ==
    /\ db' = IF Top.intx /\ ExitCommits(Top, raised) THEN Committed(Top, db) ELSE db
    /\ stack' = SubSeq(stack, 1, Len(stack) - 1)
    /\ sq' = Live(sq, db', stack')
    /\ pool' = IF ExitReleases(Top, raised) THEN CheckIn(pool) ELSE pool
    /\ stat' = [stat EXCEPT
                  !.released = IF ExitReleases(Top, raised) THEN @ + 1 ELSE @,
                  !.committed = IF Top.intx /\ ExitCommits(Top, raised) THEN @ + 1 ELSE @,
                  !.rolledback = IF Top.intx /\ ~ExitCommits(Top, raised) THEN @ + 1 ELSE @]

\* the end of a with block, reached by the body completing
ExitScope ==
    /\ InBody
    /\ Cur.op = "end"
    /\ Leave(FALSE)
    /\ Advance
    /\ UNCHANGED << runs, script, phase, exc, py, msgs, faults, pre, log >>

\* what may strike a step from outside: the server goes away, or the user
\* interrupts the script (Ctrl-C)
Strikes ==
    {[kind |-> "OperationalError", msg |-> "server closed the connection"],
     [kind |-> "KeyboardInterrupt", msg |-> "KeyboardInterrupt"]}

\* an unexpected error (connectivity loss and the like) or an interrupt
\* strikes the step that is about to talk to the database
Fault ==
    /\ InBody
    /\ faults < MaxFaults
    /\ Cur.op \in {"begin", "connect", "exec", "many", "read", "commit"}
    /\ faults' = faults + 1
    /\ visited' = visited \cup {pc}
    /\ \E e \in Strikes : Raise(e)
    /\ UNCHANGED << db, sq, runs, script, stack, py, msgs, stat, pool, pre, log >>

\* the exception leaves the innermost with block
Unwind ==
    /\ phase = "raise"
    /\ stack # << >>
    /\ Leave(TRUE)
    /\ UNCHANGED << runs, script, pc, phase, exc, py, msgs, faults, visited, pre, log >>

\* a top-level handler that prints and goes on with the next statement
TopExceptResume ==
    /\ phase = "raise"
    /\ stack = << >>
    /\ IsException(exc)
    /\ msgs' = Append(msgs, [by |-> "top", at |-> "", kind |-> exc.kind, msg |-> exc.msg])
    /\ exc' = NoExc
    /\ phase' = "body"
    /\ pc' = NextPc(script, pc)
    /\ UNCHANGED << db, sq, runs, script, stack, py, stat, pool, faults, visited, pre, log >>

\* a top-level handler that prints and raises the exception again
TopExceptReraise ==
    /\ phase = "raise"
    /\ stack = << >>
    /\ IsException(exc)
    /\ msgs' = Append(msgs, [by |-> "top", at |-> "", kind |-> exc.kind, msg |-> exc.msg])
    /\ phase' = "finally"
    /\ UNCHANGED << db, sq, runs, script, pc, stack, exc, py, stat, pool, faults, visited,
                    pre, log >>

\* the top-level handler: except Exception as e: print(..., e)
TopExcept ==
    /\ phase = "raise"
    /\ stack = << >>
    /\ IsException(exc)
    /\ msgs' = Append(msgs, [by |-> "top", at |-> "", kind |-> exc.kind, msg |-> exc.msg])
    /\ exc' = NoExc
    /\ phase' = "finally"
    /\ UNCHANGED << db, sq, runs, script, pc, stack, py, stat, pool, faults, visited, pre, log >>

\* an exception the top-level handler does not take passes it by: the
\* finally clause runs and the exception leaves the script
Escape ==
    /\ phase = "raise"
    /\ stack = << >>
    /\ ~IsException(exc)
    /\ phase' = "finally"
    /\ UNCHANGED << db, sq, runs, script, pc, stack, exc, py, msgs, stat, pool, faults,
                    visited, pre, log >>

\* finally: engine.dispose()
Dispose ==
    /\ \/ phase = "finally"
       \/ phase = "body" /\ pc = Len0(script) + 1
    /\ pool' = [pool EXCEPT !.idle = 0]
    /\ stat' = [stat EXCEPT !.disposed = @ + 1]
    /\ phase' = "done"
    /\ UNCHANGED << db, sq, runs, script, pc, stack, exc, py, msgs, faults, visited, pre, log >>

Next ==
    \/ \E n \in Scripts : StartRun(n)
    \/ Enter
    \/ TransBegin
    \/ ExecStmt
    \/ ReadSql
    \/ PyStep
    \/ Except
    \/ TransEnd
    \/ ExitScope
    \/ Fault
    \/ Unwind
    \/ TopExcept
    \/ Escape
    \/ Dispose

\* the exit code of the finished process: 0 when the interpreter reached
\* the end of the module, 1 when an exception left it uncaught
ExitCode == IF exc = NoExc THEN 0 ELSE 1

Spec == Init /\ [][Next]_vars
\* ------------------------------------------ inserts into test_defaults
\* The transaction block [2-6] of script 03 (connect, begin, INSERT INTO
\* test_defaults, commit; on an exception print and roll back), applied to
\* any column list and any values instead of the literal ones.

\* the rows of test_defaults after steps [2-3]..[2-5] of script 03
SeededRows ==
    << [id |-> 1, name |-> "Alice", department |-> "Engineering",
        email |-> "alice@example.com"],
       [id |-> 2, name |-> "Bob", department |-> "General", email |-> "bob@example.com"],
       [id |-> 3, name |-> "Anonymous", department |-> "General",
        email |-> "carol@example.com"] >>

\* the database after steps [2-1]..[2-5] of script 03: test_defaults is
\* created and holds Alice, Bob and the row built from defaults
Seeded ==
    LET made == CreateTable(EmptyDb, EmptyMap, "test_defaults", TestDefaults, 1) IN
    [d  |-> [made.d EXCEPT !.rel["test_defaults"].rows = SeededRows],
     sq |-> [made.sq EXCEPT ![1] = Len(SeededRows)]]

InitInsert ==
    /\ db = Seeded.d
    /\ sq = Seeded.sq
    /\ runs = 1
    /\ script = 3
    /\ pc = 0
    /\ phase = "idle"
    /\ stack = << >>
    /\ exc = NoExc
    /\ \E g \in [{"name", "department", "email"} -> Given] :
          py = [columns |-> ColumnList(g), params |-> << Params(g) >>]
    /\ msgs = << >>
    /\ stat = ZeroStat
    /\ pool = [idle |-> 0, out |-> 0]
    /\ faults = 0
    /\ visited = {}
    /\ pre = Seeded.d
    /\ log = << >>

\* the whole block: the INSERT is committed, or its exception is printed
\* and the transaction rolled back; the connection is released either way
InsertBlock ==
    /\ phase = "idle"
    /\ stat.begun = 0
    /\ LET r == Apply(db, sq, Ins("test_defaults", py["columns"], py["params"]),
                      py["params"], 0, 1)
       IN  /\ db' = r.d
           /\ sq' = r.sq
           /\ msgs' = IF r.ok THEN msgs
                      ELSE Append(msgs, [by |-> "local", at |-> "03:2-6",
                                         kind |-> DbError(r.err).kind, msg |-> r.err])
           /\ stat' = [stat EXCEPT !.acquired = 1, !.released = 1, !.begun = 1,
                                   !.committed = IF r.ok THEN 1 ELSE 0,
                                   !.rolledback = IF r.ok THEN 0 ELSE 1]
    /\ pool' = CheckIn(CheckOut(pool))
    /\ UNCHANGED << runs, script, pc, phase, stack, exc, py, faults, visited, pre, log >>

NextInsert == InsertBlock

SpecInsert == InitInsert /\ [][NextInsert]_vars

\* --------------------------------- the manual block, statement by statement
\* Block [2-6] of script 03 run by the steps of the runner on the table as
\* steps [2-1]..[2-5] leave it, with an INSERT that the table may accept.
InitManual ==
    /\ db = Seeded.d
    /\ sq = Seeded.sq
    /\ runs = 1
    /\ script \in {10 + k : k \in DOMAIN Attempts}
    /\ pc = 1
    /\ phase = "body"
    /\ stack = << >>
    /\ exc = NoExc
    /\ py = EmptyMap
    /\ msgs = << >>
    /\ stat = ZeroStat
    /\ pool = [idle |-> 0, out |-> 0]
    /\ faults = 0
    /\ visited = {}
    /\ pre = Seeded.d
    /\ log = << >>

\* the runs of the scripts, and the runs of block [2-6] on its own
SpecTx == (Init \/ InitManual) /\ [][Next]_vars

\* --------------------------------------------------- the timing helpers
\* timed (script 04), timed_read_sql (scripts 06-10), the inline pandas
\* timing of script 04 [4-2] and the untimed execute / fetchall / DataFrame
\* of script 01, statement by statement, called on the products table as
\* script 04 fills it, twice in a row with the same statement and any
\* params argument.

\* products after step [1-2] of script 04: the rows of batch with their ids
Stocked ==
    LET made == CreateTable(EmptyDb, EmptyMap, "products", Products04, 1) IN
    [d  |-> [made.d EXCEPT !.rel["products"].rows =
                [j \in DOMAIN Batch |-> [id |-> j] @@ Batch[j]]],
     sq |-> [made.sq EXCEPT ![1] = Len(Batch)]]

\* SELECT * FROM t WHERE col = :name
SelB(t, col, name) ==
    [k |-> "select", t |-> t, from |-> {t}, q |-> "rows",
     w |-> [col |-> col, op |-> "bind", v |-> name]]

\* the statements the helpers are given
Statement(q) ==
    CASE q = "SELECT * FROM products;" -> Sel("products")
      [] q = "SELECT * FROM products WHERE name = :n;" -> SelB("products", "name", "n")
      [] q = "SELECT * FROM products WHERE name = 'Widget-42';" ->
            SelW("products", "name", "Widget-42")

\* the params argument of a call: left out (the default None applies),
\* None, or a dict
Arg(a) ==
    CASE a = "omitted" -> [given |-> FALSE, none |-> TRUE, map |-> EmptyMap]
      [] a = "None"    -> [given |-> TRUE, none |-> TRUE, map |-> EmptyMap]
      [] a = "{}"      -> [given |-> TRUE, none |-> FALSE, map |-> EmptyMap]
      [] a = "{n: Widget-42}" -> [given |-> TRUE, none |-> FALSE, map |-> [n |-> "Widget-42"]]
      [] a = "{n: Widget-0}"  -> [given |-> TRUE, none |-> FALSE, map |-> [n |-> "Widget-0"]]

Args == {"omitted", "None", "{}", "{n: Widget-42}", "{n: Widget-0}"}

\* a helper that passes {} whatever it is given
OrEmptyAlways(p) == EmptyMap

\* params or {}
OrEmpty(p) == IF p.none \/ DOMAIN p.map = {} THEN EmptyMap ELSE p.map

\* the bind names of a statement that the mapping p gives no value
Unbound(s, p) == IF s.w.op = "bind" THEN {s.w.v} \ DOMAIN p ELSE {}

\* the statement with each :name replaced by the value p binds to it; a
\* key of p that the statement does not name is ignored
Bind(s, p) ==
    IF s.w.op = "bind"
    THEN [s EXCEPT !.w = [col |-> s.w.col, op |-> "eq", v |-> p[s.w.v]]]
    ELSE s

\* res.keys() / the columns pandas reads from the cursor
Keys(d, s) == [i \in DOMAIN d.rel[s.t].cols |-> d.rel[s.t].cols[i].name]

\* pd.DataFrame(rows, columns=keys)
Frame(keys, rows) == [columns |-> keys, data |-> rows]

\* a formatter that takes the header from the first row
TabulateFirstRow(df) ==
    [header |-> IF df.data = << >> THEN << >> ELSE << "" >> \o df.columns,
     body   |-> [i \in DOMAIN df.data |-> [index |-> i - 1, row |-> df.data[i]]]]

\* tabulate(df, headers="keys", tablefmt="grid"): the header row (led by an
\* empty cell for the index when there are rows) and one line per row
Tabulate(df) ==
    [header |-> IF df.data = << >> THEN df.columns ELSE << "" >> \o df.columns,
     body   |-> [i \in DOMAIN df.data |-> [index |-> i - 1, row |-> df.data[i]]]]

\* timed with the timer stopped after the rows were fetched
HelperBodyFetchTimed(h) ==
    IF h = "timed"
    THEN << "perf_counter", "execute", "fetchall", "perf_counter" >>
    ELSE << "perf_counter", "execute", "fetchall", "DataFrame", "perf_counter" >>

\* what each helper does with the connection it is given, in order;
\* pd.read_sql executes the statement, fetches the rows and builds the frame
HelperBody(h) ==
    CASE h = "timed" -> << "perf_counter", "execute", "perf_counter", "fetchall" >>
      [] h \in {"timed_read_sql", "inline"} ->
            << "perf_counter", "execute", "fetchall", "DataFrame", "perf_counter" >>
      [] h = "select01" -> << "execute", "fetchall", "DataFrame" >>

\* the calls: a helper, a statement, a params argument (the inline timing
\* and script 01 pass none)
Calls ==
    {[h |-> "timed", q |-> q, a |-> a] :
        q \in {"SELECT * FROM products;", "SELECT * FROM products WHERE name = :n;"},
        a \in Args}
    \cup
    {[h |-> "timed_read_sql", q |-> q, a |-> a] :
        q \in {"SELECT * FROM products;",
               "SELECT * FROM products WHERE name = 'Widget-42';"},
        a \in Args}
    \cup
    {[h |-> h, q |-> q, a |-> "omitted"] :
        h \in {"inline", "select01"},
        q \in {"SELECT * FROM products;",
               "SELECT * FROM products WHERE name = 'Widget-42';"}}

\* whether the caller prints the frame the helper returned
Printed(h) == h \in {"timed_read_sql", "select01"}

NoCall == [h |-> "", q |-> "", a |-> ""]

InitTimed ==
    /\ db = Stocked.d
    /\ sq = Stocked.sq
    /\ runs = 0
    /\ script = 4
    /\ pc = 0
    /\ phase = "idle"
    /\ stack = << >>
    /\ exc = NoExc
    /\ py = [call |-> NoCall]
    /\ msgs = << >>
    /\ stat = ZeroStat
    /\ pool = [idle |-> 0, out |-> 0]
    /\ faults = 0
    /\ visited = {}
    /\ pre = Stocked.d
    /\ log = << >>

\* the operation the call under way is about to perform
HOp ==
    IF phase = "call" /\ pc \in DOMAIN HelperBody(py.call.h)
    THEN HelperBody(py.call.h)[pc] ELSE ""

\* with engine.connect() as conn: and the call of the helper; a later
\* call repeats the helper and the statement of the first
HCall(c) ==
    /\ phase = "idle"
    /\ runs < MaxCalls
    /\ runs > 0 => c.h = py.call.h /\ c.q = py.call.q
    /\ runs' = runs + 1
    /\ pool' = CheckOut(pool)
    /\ stat' = [stat EXCEPT !.acquired = @ + 1]
    /\ log' = << "connect" >>
    /\ py' = [call |-> c, prev |-> py]
    /\ pc' = 1
    /\ phase' = "call"
    /\ UNCHANGED << db, sq, script, stack, exc, msgs, faults, visited, pre >>

\* start = time.perf_counter() / elapsed = time.perf_counter() - start:
\* elapsed covers the operations performed since start was read
HTimer ==
    /\ HOp = "perf_counter"
    /\ log' = Append(log, "perf_counter")
    /\ py' = IF "start" \notin DOMAIN py
             THEN ("start" :> Len(log) + 1) @@ py
             ELSE ("elapsed" :> SubSeq(log, py.start + 1, Len(log))) @@ py
    /\ pc' = pc + 1
    /\ UNCHANGED << db, sq, runs, script, phase, stack, exc, msgs, stat, pool, faults,
                    visited, pre >>

\* conn.execute(text(sql), params or {}) / the execute inside pd.read_sql:
\* a bind name without a value raises
HExecute ==
    /\ HOp = "execute"
    /\ log' = Append(log, "execute")
    /\ LET s     == Statement(py.call.q)
           bound == OrEmpty(Arg(py.call.a))
       IN  IF Unbound(s, bound) # {}
           THEN /\ exc' = [kind |-> "StatementError", msg |-> "missing_bind"]
                /\ phase' = "raise"
                /\ py' = ("bound" :> bound) @@ py
                /\ pc' = pc
           ELSE LET r == Apply(db, sq, Bind(s, bound), << >>, 0, 0) IN
                /\ py' = ("bound" :> bound) @@
                         ("res" :> [keys |-> Keys(db, s), rows |-> r.rows]) @@ py
                /\ pc' = pc + 1
                /\ UNCHANGED << phase, exc >>
    /\ UNCHANGED << db, sq, runs, script, stack, msgs, stat, pool, faults, visited, pre >>

\* res.fetchall() / the fetch inside pd.read_sql
HFetch ==
    /\ HOp = "fetchall"
    /\ log' = Append(log, "fetchall")
    /\ py' = ("rows" :> py.res.rows) @@ py
    /\ pc' = pc + 1
    /\ UNCHANGED << db, sq, runs, script, phase, stack, exc, msgs, stat, pool, faults,
                    visited, pre >>

\* the frame pd.read_sql builds / pd.DataFrame(res.fetchall(), columns=res.keys())
HFrame ==
    /\ HOp = "DataFrame"
    /\ log' = Append(log, "DataFrame")
    /\ py' = ("df" :> Frame(py.res.keys, py.rows)) @@ py
    /\ pc' = pc + 1
    /\ UNCHANGED << db, sq, runs, script, phase, stack, exc, msgs, stat, pool, faults,
                    visited, pre >>

\* the helper returns; pp(df, title) / print(tabulate(df, ...)) where the
\* caller prints the frame
HReturn ==
    /\ phase = "call"
    /\ pc = Len(HelperBody(py.call.h)) + 1
    /\ py' = IF Printed(py.call.h) THEN ("out" :> Tabulate(py.df)) @@ py ELSE py
    /\ phase' = "after"
    /\ UNCHANGED << db, sq, runs, script, pc, stack, exc, msgs, stat, pool, faults,
                    visited, pre, log >>

\* the end of the with block: the connection goes back to the pool
HExit ==
    /\ phase = "after"
    /\ pool' = CheckIn(pool)
    /\ stat' = [stat EXCEPT !.released = @ + 1]
    /\ phase' = "idle"
    /\ UNCHANGED << db, sq, runs, script, pc, stack, exc, py, msgs, faults, visited, pre,
                    log >>

\* the exception leaves the with block, which releases the connection, and
\* is printed by the top-level handler; the script ends
HFail ==
    /\ phase = "raise"
    /\ pool' = CheckIn(pool)
    /\ stat' = [stat EXCEPT !.released = @ + 1]
    /\ msgs' = Append(msgs, [by |-> "top", at |-> "", kind |-> exc.kind, msg |-> exc.msg])
    /\ exc' = NoExc
    /\ phase' = "done"
    /\ UNCHANGED << db, sq, runs, script, pc, stack, py, faults, visited, pre, log >>

NextTimed ==
    \/ \E c \in Calls : HCall(c)
    \/ HTimer
    \/ HExecute
    \/ HFetch
    \/ HFrame
    \/ HReturn
    \/ HExit
    \/ HFail

SpecTimed == InitTimed /\ [][NextTimed]_vars

\* ============================================================ properties
\* an unexpected error struck this run
Struck ==
    \/ exc.kind \in {e.kind : e \in Strikes}
    \/ \E i \in DOMAIN msgs : msgs[i].kind \in {e.kind : e \in Strikes}

\* the top-level handler reported an error in this run
TopErr == \E i \in DOMAIN msgs : msgs[i].by = "top"

\* the values of column c in the rows held by Python variable v
ColOf(v, c) == [i \in DOMAIN py[v] |-> py[v][i][c]]

\* the rows held by Python variable v, reduced to the columns cs
Cells(v, cs) == [i \in DOMAIN py[v] |-> Project(py[v][i], cs)]

\* the message the local handler printed for the block labelled lbl
LocalMsgs(lbl) ==
    {msgs[i].msg : i \in {j \in DOMAIN msgs : msgs[j].by = "local" /\ msgs[j].at = lbl}}

\* the step of the running script with operation op and label lbl
StepAt(op, lbl) ==
    CHOOSE i \in 1..Len0(script) :
        Prog(script)[i].op = op /\ Prog(script)[i].lbl = lbl

\* C1: every connection scope (engine.begin(), engine.connect(), the manual
\* begin/commit/rollback blocks) releases its connection exactly once on
\* exit, whether its body completed, raised a constraint violation or
\* raised any other error: the connections acquired are those released
\* plus those of the scopes still open, the pool has as many connections
\* out as scopes are open, and none once the run left its scopes.
C1_ReleasedExactlyOnce ==
    /\ stat.acquired = stat.released + Len(stack)
    /\ pool.out = Len(stack)
    /\ phase \in {"finally", "done"} => stack = << >> /\ pool.out = 0
    /\ phase = "body" /\ pc = Len0(script) + 1 => stack = << >>

\* a run ended whose nested scopes (07: engine.begin() inside
\* engine.connect()) were left by an error raised in the inner one
C1_Witness ==
    /\ phase = "done"
    /\ TopErr
    /\ script = 7
    /\ stat.acquired = stat.released
    /\ \E i \in 1..(pc - 1) : \E j \in (i + 1)..(pc - 1) :
          /\ Prog(script)[i].op = "connect"
          /\ Prog(script)[j].op = "begin"
          /\ \A m \in i..pc : Prog(script)[m].op # "end"
\* C2 (as stated): after a transaction is rolled back, later steps see the
\* database as if it had never been started, values assigned to rows
\* inserted afterwards included: the row inserted after the rolled-back
\* insert [2-6] of script 03 gets the next id, 4.
C2_AsIfNeverStarted ==
    script = 3 /\ "df_final" \in DOMAIN py
        => ColOf("df_final", "id") = << 1, 2, 3, 4 >>

\* what script 03 reads after its rolled-back inserts
C2_Reads ==
    /\ script = 3 /\ "df_users" \in DOMAIN py
          => Cells("df_users", {"user_id", "name"}) =
                << [user_id |-> 1, name |-> "Alice"], [user_id |-> 2, name |-> "Bob"] >>
    /\ script = 3 /\ "df_def" \in DOMAIN py => py["df_def"] = SeededRows
    /\ script = 3 /\ "df_final" \in DOMAIN py
          => /\ Cells("df_final", {"name", "department"}) =
                   << [name |-> "Alice", department |-> "Engineering"],
                      [name |-> "Bob", department |-> "General"],
                      [name |-> "Anonymous", department |-> "General"],
                      [name |-> "Eve", department |-> "Support"] >>
             /\ ColOf("df_final", "id") =
                   IF LocalMsgs("03:2-6") = {"not_null_violation"}
                   THEN << 1, 2, 3, 5 >> ELSE << 1, 2, 3, 4 >>

\* a step that rolled a transaction back
RolledBack == runs' = runs /\ stat'.rolledback > stat.rolledback

\* C2 (amended): a rolled-back transaction leaves no effect on tables, rows
\* or catalog objects, so later reads find the row counts and row values of
\* before it; the sequence values its inserts drew stay drawn, so a row
\* inserted afterwards gets a later id (script 03 reads ids 1, 2, 3, 5).
C2_RollbackKeepsOnlySequences ==
    /\ []C2_Reads
    /\ [][RolledBack => /\ db' = db
                        /\ \A o \in DOMAIN sq' : o \in DOMAIN sq /\ sq'[o] = sq[o]]_vars

\* script 03 read test_defaults after its insert [2-6] was refused and
\* rolled back and a further row was inserted
C2_Witness ==
    /\ script = 3
    /\ "df_final" \in DOMAIN py
    /\ LocalMsgs("03:2-6") = {"not_null_violation"}
    /\ StepAt("rollback", "03:2-6") \in visited

\* what scripts 05 and 03 read in a scope that follows a committed block
C3_Reads ==
    /\ script = 5 /\ "emp_before" \in DOMAIN py
          => /\ ColOf("dept_before", "department") = << "Engineering", "Marketing" >>
             /\ ColOf("emp_before", "employee_name") = << "Alice", "Bob", "Eve" >>
    /\ script = 5 /\ "emp_deleted" \in DOMAIN py
          => /\ ColOf("dept_deleted", "department") = << "Engineering" >>
             /\ ColOf("emp_deleted", "employee_name") = << "Alice", "Bob" >>
    /\ script = 5 /\ "emp_renamed" \in DOMAIN py
          => /\ ColOf("dept_renamed", "department") = << "Tech" >>
             /\ py["emp_renamed"] =
                   << [employee_id |-> 1, employee_name |-> "Alice"],
                      [employee_id |-> 2, employee_name |-> "Bob"] >>
    /\ script = 3 /\ "df_users" \in DOMAIN py
          => Cells("df_users", {"user_id", "name", "email"}) =
                << [user_id |-> 1, name |-> "Alice", email |-> "alice@example.com"],
                   [user_id |-> 2, name |-> "Bob", email |-> "bob@example.com"] >>

\* a step that committed a transaction
DidCommit == runs' = runs /\ stat'.committed > stat.committed

\* C3: after a transaction block commits, a read issued in a later scope,
\* on another connection, finds exactly the rows the transaction inserted,
\* updated and deleted: a commit publishes what the transaction saw, a read
\* on a connection without pending writes returns the committed rows, and
\* after the committed DELETE of 'Marketing' script 05 reads departments
\* without 'Marketing' and employees without 'Eve'.
C3_CommittedIsRead ==
    /\ []C3_Reads
    /\ [][DidCommit => db' = CurView]_vars
    /\ [][ReadSql /\ ~Top.dirty /\ exc' = NoExc
             => py'[Cur.var] = Query(db, Cur.s)]_vars

\* script 05 ran to its end and read the tables after each committed block
C3_Witness ==
    /\ script = 5
    /\ phase = "done"
    /\ ~TopErr
    /\ "emp_deleted" \in DOMAIN py
    /\ "emp_renamed" \in DOMAIN py

\* the four enrollments, and (101,'CS101') among them once
FourEnrollments(v) ==
    /\ Cells(v, {"student_id", "course_id"}) = EnrollmentRows
    /\ Cardinality({i \in DOMAIN py[v] :
                       py[v][i].student_id = 101 /\ py[v][i].course_id = "CS101"}) = 1

\* C4: course_enrollments has the composite primary key (student_id,
\* course_id) and holds (101,'CS101'); the second insert of (101,'CS101')
\* is refused with a uniqueness violation, trans.commit() is not reached,
\* and the SELECT after the rollback finds the four rows inserted at first,
\* (101,'CS101') once (02 section 1, 03 section 3).
C4_DuplicateCompositeKey ==
    /\ script = 2 /\ "df" \in DOMAIN py
          => /\ FourEnrollments("df")
             /\ StepAt("commit", "02:1-4") \notin visited
             /\ StepAt("rollback", "02:1-4") \in visited
             /\ ~Struck => LocalMsgs("02:1-4") = {"unique_violation"}
    /\ script = 3 /\ "df_enr" \in DOMAIN py
          => /\ FourEnrollments("df_enr")
             /\ StepAt("commit", "03:3-4") \notin visited
             /\ StepAt("rollback", "03:3-4") \in visited
             /\ ~Struck => LocalMsgs("03:3-4") = {"unique_violation"}

\* script 02 read the table after the duplicate was refused and rolled back
C4_Witness ==
    /\ script = 2
    /\ "df" \in DOMAIN py
    /\ LocalMsgs("02:1-4") = {"unique_violation"}
    /\ Len(py["df"]) = 4
\* C5: test_defaults.email is NOT NULL without a default: an INSERT that
\* leaves email out of its column list, or supplies NULL for it, is refused
\* with a NOT NULL violation and stores no row; no stored row has a NULL
\* email, and an email is stored as it was given, never replaced by an
\* empty value.
C5_NotNullWithoutDefault ==
    LET given == py["params"][1]
        rows  == db.rel["test_defaults"].rows
    IN  /\ \A i \in DOMAIN rows : "email" \in DOMAIN rows[i]
        /\ stat.begun = 1 /\ "email" \notin DOMAIN given
              => /\ LocalMsgs("03:2-6") = {"not_null_violation"}
                 /\ rows = Seeded.d.rel["test_defaults"].rows
                 /\ stat.committed = 0
                 /\ stat.rolledback = 1
        /\ stat.begun = 1 /\ "email" \in DOMAIN given
              => /\ msgs = << >>
                 /\ Len(rows) = Len(Seeded.d.rel["test_defaults"].rows) + 1
                 /\ rows[Len(rows)].email = given.email

\* an INSERT that left email out of its column list was refused
C5_Witness ==
    /\ stat.begun = 1
    /\ "email" \notin py["columns"]
    /\ "name" \in DOMAIN py["params"][1]
    /\ LocalMsgs("03:2-6") = {"not_null_violation"}
    /\ Len(db.rel["test_defaults"].rows) = 3
\* C6 (as stated): after a script ran to completion without error, no
\* table, index, view, materialized view, trigger or trigger function it
\* created still exists: a run started on an empty database ends on an
\* empty database.
C6_NoResidue ==
    phase = "done" /\ ~TopErr /\ exc = NoExc /\ pre = EmptyDb => db = pre

\* the database a run of script n from an empty database ends with
FinalDb(n) ==
    CASE n = 7  -> [EmptyDb EXCEPT !.fn = "trg_update_document" :> "trg_update_document"]
      [] n = 10 -> [EmptyDb EXCEPT !.fn = "trg_set_timestamp" :> "trg_set_timestamp"]
      [] OTHER  -> EmptyDb

\* the steps a run reaches when nothing unexpected strikes: all but the
\* trans.commit() after a demonstration's refused statement
Reached(n) ==
    {i \in 1..Len0(n) : ~(Prog(n)[i].op = "commit" /\ Prog(n)[i].try)}

\* C7: a script is idempotent under re-run: started from what any earlier
\* run of the same script left, completed or aborted by an error at any
\* statement, a run that nothing unexpected strikes reaches its end with no
\* error reported at top level and no error about a missing, existing or
\* depended-on object, and ends with the database of a run from an empty
\* database.
C7_IdempotentRerun ==
    phase = "done" /\ ~Struck
        => /\ ~TopErr
           /\ \A i \in DOMAIN msgs : msgs[i].kind = "IntegrityError"
           /\ db = FinalDb(script)
           /\ sq = EmptyMap

\* script 08 ran to its end on a database where an aborted run had left
\* the table products and the views over it
C7_Witness ==
    /\ phase = "done"
    /\ ~Struck
    /\ runs = 2
    /\ script = 8
    /\ "products" \in DOMAIN pre.rel
    /\ "cheap_products_mv" \in DOMAIN pre.rel
    /\ db = EmptyDb

\* C8: every engine.begin() block is atomic: leaving it by its body
\* completing commits all its statements saw and did, DDL and the rows of
\* cursor.executemany included; leaving it by an exception commits
\* nothing; and no step inside the block changes what is committed.
C8_BeginBlockAtomic ==
    /\ [][ExitScope /\ Top.kind = "begin"
             => db' = CurView /\ stat'.committed = stat.committed + 1]_vars
    /\ [][Unwind /\ Top.kind = "begin"
             => /\ db' = db
                /\ stat'.committed = stat.committed
                /\ stat'.rolledback = stat.rolledback + 1]_vars
    /\ [][stack # << >> /\ Top.kind = "begin" /\ Len(stack') >= Len(stack)
             => db' = db]_vars

\* the first block of script 01 created a table and filled it through the
\* cursor, then a later statement of the block raised: nothing is stored
C8_Witness ==
    /\ phase = "done"
    /\ TopErr
    /\ script = 1
    /\ pre = EmptyDb
    /\ db = EmptyDb
    /\ \E c \in visited : \E m \in visited :
          /\ c < m /\ m < pc
          /\ Prog(script)[c].s.k = "create_table"
          /\ Prog(script)[m].op = "many"
          /\ \A i \in c..pc : Prog(script)[i].op # "end"

\* C9 (as stated): a failure raised by a statement inside a transaction
\* scope is propagated out of the scope to its caller.
C9_AlwaysPropagated == exc # NoExc /\ IsException(exc) => phase = "raise"

\* C9 (amended): when a statement raises inside a transaction scope, the
\* transaction is rolled back and the connection released; the failure
\* leaves the scope, carrying the engine's message, when no try/except
\* encloses the statement, and in the manual begin/commit/rollback blocks
\* it is caught inside the scope, printed with the engine's message and not
\* propagated.
C9_RolledBackCaughtOrPropagated ==
    /\ [](exc # NoExc /\ phase = "body"
             => Cur.op = "except" /\ Cur.hd /\ stack # << >> /\ Top.intx)
    /\ [](phase = "raise" => exc # NoExc /\ (~Cur.try \/ ~IsException(exc)))
    /\ [](phase = "done"
             => /\ stack = << >>
                /\ stat.released = stat.acquired
                /\ stat.begun = stat.committed + stat.rolledback)
    /\ [][exc = NoExc /\ exc' # NoExc /\ IsException(exc') /\ Cur.try
             => phase' = "body" /\ Prog(script)[pc'].op = "except"]_vars
    /\ [][exc # NoExc => db' = db]_vars
    /\ [][exc # NoExc /\ exc' = NoExc /\ runs' = runs
             => /\ msgs' = Append(msgs, msgs'[Len(msgs')])
                /\ msgs'[Len(msgs')].msg = exc.msg
                /\ exc.msg # ""
                /\ msgs'[Len(msgs')].by = IF phase = "raise" THEN "top" ELSE "local"]_vars
    /\ [][InBody /\ Cur.op = "rollback"
             => ~Top'.intx /\ ~Top'.dirty /\ db' = db]_vars

\* the duplicate insert of script 02 raised inside its block and the
\* block's own handler is about to print it
C9_Witness ==
    /\ script = 2
    /\ phase = "body"
    /\ exc.msg = "unique_violation"
    /\ Cur.op = "except"
    /\ Cur.lbl = "02:1-4"
    /\ stack # << >>

\* the violation each demonstration block raises
Demonstrated(n) ==
    CASE n = 2 -> {<< "02:1-4", "unique_violation" >>}
      [] n = 3 -> {<< "03:1-4", "unique_violation" >>, << "03:1-5", "unique_violation" >>,
                   << "03:2-6", "not_null_violation" >>, << "03:3-4", "unique_violation" >>}
      [] OTHER -> {}

\* C10: a constraint violation raised in a demonstration step (duplicate
\* primary key, duplicate UNIQUE email, NULL into a NOT NULL column,
\* duplicate composite key) is caught and printed by the block's own
\* handler, the transaction is rolled back, and the run goes on through
\* every later step, the final SELECT and the cleanup DROP of the section
\* included, to its end.
C10_ViolationCaughtRunContinues ==
    /\ \A i \in DOMAIN msgs :
          msgs[i].kind = "IntegrityError"
             => /\ msgs[i].by = "local"
                /\ << msgs[i].at, msgs[i].msg >> \in Demonstrated(script)
                /\ StepAt("commit", msgs[i].at) \notin visited
                /\ pc > StepAt("rollback", msgs[i].at)
                      => StepAt("rollback", msgs[i].at) \in visited
    /\ phase = "done" /\ ~Struck
          => /\ ~TopErr
             /\ visited = Reached(script)
             /\ {<< msgs[i].at, msgs[i].msg >> : i \in DOMAIN msgs} = Demonstrated(script)
             /\ stat.rolledback >= Len(msgs)

\* script 03 ran to its end after its four demonstrations were refused
C10_Witness ==
    /\ phase = "done"
    /\ script = 3
    /\ ~Struck
    /\ Len(msgs) = 4
    /\ "df_enr" \in DOMAIN py

\* the messages printed by the top-level handler in this run
TopMsgs == {i \in DOMAIN msgs : msgs[i].by = "top"}

\* C11: an exception that reaches the top level of a script is caught once
\* by the top-level handler, which prints it; no later statement of the
\* script runs after that; and the finally clause disposes the engine
\* exactly once per execution, on the success path as well.
C11_CaughtOnceDisposedOnce ==
    /\ [](Cardinality(TopMsgs) <= 1)
    /\ [](stat.disposed = IF phase = "done" THEN 1 ELSE 0)
    /\ [](TopErr => /\ phase \in {"finally", "done"}
                    /\ msgs[Len(msgs)].by = "top"
                    /\ pc <= Len0(script))
    /\ [](phase = "done" /\ pc = Len0(script) + 1 => ~TopErr /\ exc = NoExc)
    /\ [][phase = "raise" /\ stack = << >> /\ IsException(exc)
             => (/\ TopMsgs' = TopMsgs \cup {Len(msgs) + 1}
                 /\ msgs'[Len(msgs')].kind = exc.kind
                 /\ phase' = "finally")]_vars
    /\ [][phase = "raise" \/ phase = "finally"
             => (/\ visited' = visited
                 /\ pc' = pc
                 /\ py' = py
                 /\ phase' \in {"raise", "finally", "done"})]_vars
    /\ [][phase = "finally"
             => (/\ phase' = "done"
                 /\ stat'.disposed = stat.disposed + 1
                 /\ pool'.idle = 0)]_vars

\* a run that an error cut short before its last statement: reported once
\* at top level, engine disposed
C11_Witness ==
    /\ phase = "done"
    /\ Cardinality(TopMsgs) = 1
    /\ stat.disposed = 1
    /\ pc < Len0(script)
    /\ visited # {}

Measured == py.elapsed

Falsy(a) == a \in {"omitted", "None", "{}"}

\* what a call produced
Result(l) == Restrict(l, DOMAIN l \cap {"bound", "res", "rows", "df", "out"})

\* C14: a timing helper called with params omitted, with None or with an
\* empty dict executes the statement with the same empty bindings and
\* returns the same rows (two calls in a row with the same statement and
\* any two of the three give the same result, and the second does not raise
\* where the first did not); a non-empty mapping is passed on as it is.
C14_EmptyParamsEquivalent ==
    /\ "bound" \in DOMAIN py
          => py.bound = IF Falsy(py.call.a) THEN EmptyMap ELSE Arg(py.call.a).map
    /\ runs >= 2 /\ Falsy(py.call.a) /\ Falsy(py.prev.call.a)
          => /\ phase # "raise"
             /\ phase = "after" => Result(py) = Result(py.prev)

\* timed returned the rows of products for params=None after it had
\* returned them for params={}
C14_Witness ==
    /\ runs = 2
    /\ phase = "after"
    /\ py.call.h = "timed"
    /\ py.call.a = "None"
    /\ py.prev.call.a = "{}"
    /\ py.rows # << >>
    /\ py.rows = py.prev.rows

\* the name the statement of the call under way asks for ("" when it asks
\* for every row)
Wanted ==
    CASE py.call.q = "SELECT * FROM products;" -> ""
      [] py.call.q = "SELECT * FROM products WHERE name = 'Widget-42';" -> "Widget-42"
      [] py.call.q = "SELECT * FROM products WHERE name = :n;" ->
            IF "n" \in DOMAIN Arg(py.call.a).map THEN Arg(py.call.a).map.n ELSE ""

\* no row of products has the name the statement asks for
NoHit ==
    /\ Wanted # ""
    /\ \A i \in DOMAIN db.rel["products"].rows : db.rel["products"].rows[i].name # Wanted

\* C15: a SELECT executed through timed or timed_read_sql that matches no
\* row returns an empty row sequence (an empty list, a DataFrame with the
\* columns and no rows) together with the elapsed time, and raises nothing;
\* the helpers raise only for a bind name left without a value.
C15_NoRowsIsEmptyNotError ==
    /\ phase = "after" /\ py.call.h \in {"timed", "timed_read_sql"} /\ NoHit
          => /\ py.rows = << >>
             /\ "elapsed" \in DOMAIN py
             /\ exc = NoExc
             /\ msgs = << >>
             /\ py.call.h = "timed_read_sql"
                   => py.df = [columns |-> << "id", "name", "price", "in_stock" >>,
                               data |-> << >>]
    /\ phase = "raise" => ~NoHit /\ exc.msg = "missing_bind"
    /\ phase = "after" /\ py.call.h \in {"timed", "timed_read_sql"} /\ ~NoHit
          => py.rows # << >>

\* timed returned the empty list for a name no product has
C15_Witness ==
    /\ phase = "after"
    /\ py.call.h = "timed"
    /\ py.call.a = "{n: Widget-42}"
    /\ py.rows = << >>
    /\ "elapsed" \in DOMAIN py

Delivery(st) ==
    CASE "fmt" \in DOMAIN st.s -> "interpolated"
      [] st.op = "many" -> "positional"
      [] st.var # "" \/ "bind" \in DOMAIN st.s -> "named"
      [] OTHER -> "constant"

\* the run is about to send a statement to the engine
Sending == InBody /\ Cur.op \in {"exec", "many", "read"}

\* C17 (as stated): every value that varies per execution is bound by
\* name, and no statement text is built by interpolation.
C17_AlwaysBoundByName ==
    Sending => Delivery(Cur) \in {"named", "constant"}

\* C17 (amended): every data value a statement is executed with reaches
\* the engine as a bound parameter, by name (:name) through conn.execute
\* and DataFrame.to_sql and by position (%s) through executemany on the
\* DBAPI cursor, never formatted into the statement text; the one
\* statement text built by interpolation is the cleanup DROP TABLE IF
\* EXISTS of script 06, which formats a table name taken from a literal
\* tuple and carries no value.
C17_ValuesBoundNeverInterpolated ==
    Sending
       => /\ Cur.var # "" /\ Cur.op # "read" => Delivery(Cur) = "named"
          /\ Cur.op = "many" => Delivery(Cur) = "positional" /\ Bound(Cur) # << >>
          /\ Delivery(Cur) = "interpolated"
                => /\ script = 6
                   /\ Cur.s = DropF(Cur.s.t)
                   /\ Cur.s.t \in Range(Tables06)
                   /\ Bound(Cur) = << >>
                   /\ Cur.var = ""

\* script 06 is about to send the interpolated DROP of its cleanup loop,
\* after its executemany inserts with positional parameters
C17_Witness ==
    /\ Sending
    /\ script = 6
    /\ Delivery(Cur) = "interpolated"
    /\ \E i \in visited : Delivery(Prog(6)[i]) = "positional"


\* the scopes below the innermost one
Outer(st) == SubSeq(st, 1, Len(st) - 1)

\* C18: no script begins a transaction on a connection that already has
\* one open (a transaction begins either with a scope on a newly acquired
\* connection, or on the innermost scope's connection while it has none,
\* and conn.begin() is never refused), and no connection serves two scopes
\* at a time (as many connections are checked out as scopes are open);
\* scopes nest only in script 07, where the write inside the open read
\* scope runs in an engine.begin() scope on its own connection and leaves
\* the read scope's connection as it was.
C18_NoNestedTransaction ==
    /\ [](pool.out = Len(stack))
    /\ [](/\ exc.kind # "InvalidRequestError"
          /\ \A i \in DOMAIN msgs : msgs[i].kind # "InvalidRequestError")
    /\ [](/\ Len(stack) <= 2
          /\ Len(stack) = 2
                => script = 7 /\ stack[1].kind = "connect" /\ stack[2].kind = "begin")
    /\ [][runs' = runs /\ stat'.begun # stat.begun
             => (/\ stat'.begun = stat.begun + 1
                 /\ \/ /\ Len(stack') = Len(stack) + 1
                       /\ pool'.out = pool.out + 1
                       /\ Outer(stack') = stack
                       /\ stack'[Len(stack')].kind = "begin"
                    \/ /\ Len(stack') = Len(stack)
                       /\ ~Top.intx
                       /\ stack'[Len(stack')].intx
                       /\ Outer(stack') = Outer(stack))]_vars
    /\ [][Len(stack) = 2 /\ Len(stack') = 2 => stack'[1] = stack[1]]_vars

\* script 07 has written on the inner connection while the outer read
\* scope, which has read, is open
C18_Witness ==
    /\ script = 7
    /\ Len(stack) = 2
    /\ pool.out = 2
    /\ Top.dirty
    /\ stack[1].intx /\ ~stack[1].dirty


\* the scopes whose connection has a transaction open
OpenTx == {i \in DOMAIN stack : stack[i].intx}

\* the step of a manual block that is being executed
AtManual(op) == InBody /\ Cur.op = op /\ Cur.lbl # ""

\* C19: every transaction a script opens ends with exactly one of commit
\* or rollback, never both and never neither, at the latest when its
\* connection is released: the transactions begun are those committed,
\* those rolled back and those still open on an open scope, one step ends
\* at most one transaction and in one way, and a connection is released
\* with no transaction left on it. In the manual blocks trans.commit() is
\* reached only after the statement succeeded, and trans.rollback() only
\* after the statement or the commit raised and the handler printed it.
C19_CommitXorRollback ==
    /\ [](stat.begun = stat.committed + stat.rolledback + Cardinality(OpenTx))
    /\ [](stack = << >> => stat.begun = stat.committed + stat.rolledback)
    /\ [][runs' = runs
             => (/\ stat'.committed + stat'.rolledback
                       \in {stat.committed + stat.rolledback,
                            stat.committed + stat.rolledback + 1}
                 /\ stat'.committed >= stat.committed
                 /\ stat'.rolledback >= stat.rolledback)]_vars
    /\ [][runs' = runs /\ stat'.committed + stat'.rolledback > stat.committed + stat.rolledback
             => (/\ Top.intx
                 /\ stat'.begun = stat.begun
                 /\ \/ Len(stack') = Len(stack) - 1
                    \/ Len(stack') = Len(stack) /\ ~stack'[Len(stack')].intx)]_vars
    /\ [][runs' = runs /\ stat'.released > stat.released
             => (/\ Len(stack') = Len(stack) - 1
                 /\ Top.intx
                       => stat'.committed + stat'.rolledback
                             = stat.committed + stat.rolledback + 1)]_vars
    /\ [][AtManual("commit") /\ stat'.committed > stat.committed
             => (/\ exc = NoExc
                 /\ LocalMsgs(Cur.lbl) = {}
                 /\ Top.dirty
                 /\ db' = Top.view)]_vars
    /\ [][AtManual("rollback") /\ stat'.rolledback > stat.rolledback
             => (/\ LocalMsgs(Cur.lbl) # {}
                 /\ db' = db)]_vars

\* block [2-6] ran with an INSERT the table accepts: committed by
\* trans.commit(), not rolled back, connection released
C19_Witness ==
    /\ script > 10
    /\ phase = "done"
    /\ stat.begun = 1
    /\ stat.committed = 1
    /\ stat.rolledback = 0
    /\ stat.released = 1
    /\ Len(db.rel["test_defaults"].rows) = Len(SeededRows) + 1


\* the step of script 08 that reads var in show_views(tag)
ReadAt(var, tag) ==
    CHOOSE i \in DOMAIN Script08 :
        Script08[i].op = "read" /\ Script08[i].var = var /\ Script08[i].lbl = tag

\* the steps of script 08 that execute a statement of kind k
Doing(k) == {i \in DOMAIN Script08 : Script08[i].op = "exec" /\ Script08[i].s.k = k}

\* the end of the with block that holds step i of script 08
EndOf(i) == CHOOSE j \in DOMAIN Script08 :
                /\ j > i
                /\ Script08[j].op = "end"
                /\ \A m \in (i + 1)..(j - 1) : Script08[m].op # "end"

\* the rows products has below 100 when the views are created
Stored ==
    << [id |-> 1, name |-> "Hammer", price |-> 50],
       [id |-> 4, name |-> "Helmet", price |-> 90],
       [id |-> 5, name |-> "Goggles", price |-> 40] >>

\* the same after Helmet went up to 120
StillCheap ==
    << [id |-> 1, name |-> "Hammer", price |-> 50],
       [id |-> 5, name |-> "Goggles", price |-> 40] >>

\* the block of script 08 that holds the step of kind k has been left in
\* this run, and the cleanup has not begun
Past(k) ==
    /\ script = 8
    /\ phase # "idle"
    /\ \E i \in Doing(k) : pc > EndOf(i) /\ i \in visited /\ EndOf(i) \in visited
    /\ \A i \in Doing("drop_matview") : i > EndOf(ReadAt("df_v", "08:initial")) => i \notin visited

\* C20: in script 08, once the UPDATE of Helmet from 90 to 120 is
\* committed, cheap_products_view no longer returns Helmet while
\* cheap_products_mv still returns the rows stored at its creation, Helmet
\* at 90 among them, as long as REFRESH MATERIALIZED VIEW has not run;
\* after the refresh both return the same rows. The reads of show_views
\* find just that: both views alike at first, Helmet only in the
\* materialized view when stale, both alike again when refreshed.
C20_MatViewStaleUntilRefresh ==
    /\ [](Past("create_view") /\ ~Past("update")
             => /\ db.rel["cheap_products_mv"].rows = Stored
                /\ RelRows(db, "cheap_products_view") = Stored)
    /\ [](Past("update") /\ ~Past("refresh")
             => /\ db.rel["cheap_products_mv"].rows = Stored
                /\ RelRows(db, "cheap_products_mv") = Stored
                /\ RelRows(db, "cheap_products_view") = StillCheap)
    /\ [](Past("refresh")
             => /\ RelRows(db, "cheap_products_mv") = StillCheap
                /\ RelRows(db, "cheap_products_view") = StillCheap)
    /\ [][script = 8 /\ InBody /\ Cur.op = "read" /\ py' # py
             => (/\ Cur.lbl = "08:initial" => py'[Cur.var] = Stored
                 /\ Cur.lbl = "08:stale"
                       => py'[Cur.var] = IF Cur.var = "df_mv" THEN Stored ELSE StillCheap
                 /\ Cur.lbl = "08:refreshed" => py'[Cur.var] = StillCheap)]_vars

\* show_views has read the stale state: Helmet at 90 in the materialized
\* view, no Helmet in the view, Helmet at 120 in products
C20_Witness ==
    /\ Past("update")
    /\ ~Past("refresh")
    /\ pc > ReadAt("df_mv", "08:stale")
    /\ py["df_mv"] = Stored
    /\ py["df_v"] = StillCheap
    /\ \E i \in DOMAIN db.rel["products"].rows :
          db.rel["products"].rows[i].name = "Helmet" /\ db.rel["products"].rows[i].price = 120


\* the catalogs a statement of this run can see: what is committed and the
\* pending writes of the open connections
Catalogs == {db} \cup {stack[i].view : i \in {j \in DOMAIN stack : stack[j].dirty}}

\* every employee of catalog c that names a department names a stored one
Referenced(c) ==
    "employees" \in DOMAIN c.rel =>
        \A i \in DOMAIN c.rel["employees"].rows :
            LET e == c.rel["employees"].rows[i] IN
            "department" \in DOMAIN e =>
                /\ "departments" \in DOMAIN c.rel
                /\ \E j \in DOMAIN c.rel["departments"].rows :
                      c.rel["departments"].rows[j].department = e.department

\* whether employee e belongs to department dep
WorksIn(e, dep) == "department" \in DOMAIN e /\ e.department = dep

\* the statement of script 05 at pc, of kind k on departments, was accepted
Accepted05(k) ==
    /\ script = 5
    /\ InBody
    /\ Cur.op = "exec"
    /\ Cur.s.k = k
    /\ Cur.s.t = "departments"
    /\ pc' # pc
    /\ phase' = "body"
    /\ exc' = NoExc

\* C21: at every step of script 05 every non-NULL employees.department
\* names a stored departments row, in what is committed and in what the
\* open transaction sees. The DELETE of a department removes exactly the
\* employees of that department (ON DELETE CASCADE) and keeps the others
\* as they were, in order; the UPDATE that renames a department sets
\* department to NULL for exactly the employees of that department (ON
\* UPDATE SET NULL) and leaves every other employee row unchanged.
C21_ForeignKeyActions ==
    /\ [](script = 5 => \A c \in Catalogs : Referenced(c))
    /\ [][Accepted05("delete")
             => (stack'[Len(stack)].view.rel["employees"].rows =
                    SelectSeq(CurView.rel["employees"].rows,
                              LAMBDA e : ~WorksIn(e, Cur.s.w.v)))]_vars
    /\ [][Accepted05("update")
             => (LET old == CurView.rel["employees"].rows
                     new == stack'[Len(stack)].view.rel["employees"].rows
                 IN  /\ DOMAIN new = DOMAIN old
                     /\ \A i \in DOMAIN old :
                           new[i] = IF WorksIn(old[i], Cur.s.w.v)
                                    THEN Restrict(old[i], DOMAIN old[i] \ {"department"})
                                    ELSE old[i])]_vars

\* script 05 has read employees before the actions (three rows), after the
\* delete of Marketing (Eve gone) and after the rename of Engineering
\* (Alice and Bob without department)
C21_Witness ==
    /\ script = 5
    /\ "emp_renamed" \in DOMAIN py
    /\ Len(py["emp_before"]) = 3
    /\ [i \in DOMAIN py["emp_deleted"] |-> py["emp_deleted"][i].employee_name] = << "Alice", "Bob" >>
    /\ \A i \in DOMAIN py["emp_deleted"] : py["emp_deleted"][i].department = "Engineering"
    /\ Len(py["emp_renamed"]) = 2
    /\ \A i \in DOMAIN py["emp_renamed"] : "department" \notin DOMAIN py["emp_renamed"][i]
    /\ [i \in DOMAIN py["dept_renamed"] |-> py["dept_renamed"][i].department] = << "Tech" >>


\* the INSERT of the manual block lbl of script 03 is refused with err
Refused03(lbl, err) ==
    /\ script = 3
    /\ InBody
    /\ Cur.op = "exec"
    /\ Cur.lbl = lbl
    /\ exc'.msg = err

\* C22: a rolled-back insert still consumes a value of the SERIAL
\* sequence. The INSERT of block [2-6] refused for its NULL email advances
\* the sequence of test_defaults.id by one, the rollback does not give the
\* value back, and the next accepted insert skips it: the rows read at
\* [2-7] have ids 1, 2, 3 and, in a run whose block [2-6] reported the NOT
\* NULL violation, the final rows have ids 1, 2, 3, 5. The INSERT of
\* block [1-4], refused while it supplies user_id 1 itself, leaves every
\* sequence as it was.
C22_SequenceGapAfterRollback ==
    /\ [][Refused03("03:2-6", "not_null_violation")
             => (sq' = [sq EXCEPT ![CurView.rel["test_defaults"].oid] = @ + 1])]_vars
    /\ [][Refused03("03:1-4", "unique_violation") => sq' = sq]_vars
    /\ [](script = 3 /\ "df_def" \in DOMAIN py => ColOf("df_def", "id") = << 1, 2, 3 >>)
    /\ [](script = 3 /\ "df_final" \in DOMAIN py
              /\ LocalMsgs("03:2-6") = {"not_null_violation"}
             => ColOf("df_final", "id") = << 1, 2, 3, 5 >>)

\* script 03 printed both violations and read the final rows with the gap
C22_Witness ==
    /\ script = 3
    /\ LocalMsgs("03:1-4") = {"unique_violation"}
    /\ LocalMsgs("03:2-6") = {"not_null_violation"}
    /\ "df_final" \in DOMAIN py
    /\ ColOf("df_final", "id") = << 1, 2, 3, 5 >>
    /\ ColOf("df_final", "name") = << "Alice", "Bob", "Anonymous", "Eve" >>


\* to_tsvector('english', title||' '||body) of row r
Vector(r) == Lexemes(r.title) \cup Lexemes(r.body)

\* every article of catalog c carries the vector of its title and body
Indexed(c) ==
    \A i \in DOMAIN c.rel["articles"].rows :
        LET a == c.rel["articles"].rows[i] IN
        "document" \in DOMAIN a /\ a.document = Vector(a)

\* trigger tsvector_update is installed on articles in catalog c
Installed(c) ==
    /\ "articles" \in DOMAIN c.rel
    /\ "tsvector_update" \in DOMAIN c.trg
    /\ c.trg["tsvector_update"].tbl = "articles"

\* the titles held by Python variable v
Titles(v) == {py[v][i].title : i \in DOMAIN py[v]}

\* C23: in script 07, in every catalog where trigger tsvector_update is
\* installed on articles, every article has document equal to
\* to_tsvector('english', title||' '||body). An INSERT accepted while the
\* trigger is installed names only title and body and stores each new row
\* with that document, leaving the earlier rows as they were; the second
\* search for 'AI' returns 'New AI breakthrough', which the first search
\* did not return.
C23_TriggerFillsDocument ==
    /\ [](script = 7 => \A c \in Catalogs : Installed(c) => Indexed(c))
    /\ [][script = 7 /\ InBody /\ Cur.op = "exec" /\ Cur.s.k = "insert"
            /\ Cur.s.t = "articles" /\ Installed(CurView)
            /\ pc' # pc /\ phase' = "body"
             => (LET old == CurView.rel["articles"].rows
                     new == stack'[Len(stack)].view.rel["articles"].rows
                 IN  /\ "document" \notin Cur.s.cols
                     /\ \A i \in DOMAIN Bound(Cur) : "document" \notin DOMAIN Bound(Cur)[i]
                     /\ Len(new) = Len(old) + Len(Bound(Cur))
                     /\ \A i \in DOMAIN old : new[i] = old[i]
                     /\ \A i \in DOMAIN Bound(Cur) :
                           LET a == new[Len(old) + i] IN
                           /\ a.title = Bound(Cur)[i].title
                           /\ a.body = Bound(Cur)[i].body
                           /\ a.document = Vector(Bound(Cur)[i]))]_vars
    /\ [](script = 7 /\ "df_ai2" \in DOMAIN py
             => /\ "New AI breakthrough" \in Titles("df_ai2")
                /\ "New AI breakthrough" \notin Titles("df_ai")
                /\ Titles("df_ai") \subseteq Titles("df_ai2"))

\* the second search of script 07 has returned the article inserted after
\* the trigger was installed, next to the two found by the first search
C23_Witness ==
    /\ script = 7
    /\ "df_ai2" \in DOMAIN py
    /\ Titles("df_ai") = {"AI in Avengers", "AI Ethics"}
    /\ Titles("df_ai2") = {"AI in Avengers", "AI Ethics", "New AI breakthrough"}
    /\ \A c \in Catalogs : Installed(c) /\ Indexed(c) /\ Len(c.rel["articles"].rows) = 6


\* ------------------------------- the audit trigger, statement by statement
\* blog_posts as step [1-1] of script 10 leaves it, trigger ts_audit
\* installed, written by transactions that follow one another as the
\* with engine.begin() blocks of the script do: each INSERT or UPDATE
\* supplies title and body only, as the INSERT of step [1-2] does.
\* runs counts the transactions and stands for NOW(), pc counts the
\* statements.

\* the database after step [1-1] of script 10
Audited ==
    LET made == CreateTable(EmptyDb, EmptyMap, "blog_posts",
                    Table(<< Serial("id"), Plain("title"), Plain("body"),
                             Plain("created_at"), Plain("updated_at") >>, {"id"}, {}, {}), 1)
    IN  [d  |-> [made.d EXCEPT !.fn = ("trg_set_timestamp" :> "trg_set_timestamp"),
                               !.trg = ("ts_audit" :> [tbl |-> "blog_posts",
                                                       fn |-> "trg_set_timestamp"])],
         sq |-> made.sq]

\* posts: title and body, or a title alone
Posts ==
    { [title |-> "Hello", body |-> "First post"],
      [title |-> "News", body |-> "Breaking"],
      [title |-> "Tips"] }

InitAudit ==
    /\ db = Audited.d
    /\ sq = Audited.sq
    /\ runs = 0
    /\ script = 10
    /\ pc = 0
    /\ phase = "idle"
    /\ stack = << >>
    /\ exc = NoExc
    /\ py = EmptyMap
    /\ msgs = << >>
    /\ stat = ZeroStat
    /\ pool = [idle |-> 0, out |-> 0]
    /\ faults = 0
    /\ visited = {}
    /\ pre = Audited.d
    /\ log = << >>

\* with engine.begin() as conn: the next transaction, NOW() moves on
AuditBegin ==
    /\ phase \in {"idle", "after"}
    /\ runs < MaxStamps
    /\ runs' = runs + 1
    /\ phase' = "body"
    /\ UNCHANGED << db, sq, script, pc, stack, exc, py, msgs, stat, pool, faults,
                    visited, pre, log >>

\* INSERT INTO blog_posts (title, body) VALUES (:title, :body)
AuditInsert(p) ==
    /\ phase \in {"body", "after"}
    /\ pc < MaxStamps
    /\ LET r == Apply(db, sq, Named(Ins("blog_posts", DOMAIN p, << p >>)), << p >>, 0, runs)
       IN  db' = r.d /\ sq' = r.sq
    /\ py' = [k |-> "insert", post |-> p]
    /\ pc' = pc + 1
    /\ phase' = "after"
    /\ UNCHANGED << runs, script, stack, exc, msgs, stat, pool, faults, visited, pre, log >>

\* UPDATE blog_posts SET col = 'Edited' WHERE id = id
AuditUpdate(col, id) ==
    /\ phase \in {"body", "after"}
    /\ pc < MaxStamps
    /\ LET r == Apply(db, sq, Upd("blog_posts", col, "Edited", "id", id), << >>, 0, runs)
       IN  db' = r.d /\ sq' = r.sq
    /\ py' = [k |-> "update", col |-> col, id |-> id]
    /\ pc' = pc + 1
    /\ phase' = "after"
    /\ UNCHANGED << runs, script, stack, exc, msgs, stat, pool, faults, visited, pre, log >>

NextAudit ==
    \/ AuditBegin
    \/ \E p \in Posts : AuditInsert(p)
    \/ \E col \in {"title", "body"}, id \in 1..MaxStamps : AuditUpdate(col, id)

SpecAudit == InitAudit /\ [][NextAudit]_vars

\* the rows of blog_posts
Blog == db.rel["blog_posts"].rows

\* C24: trigger ts_audit sets created_at and updated_at to NOW() on every
\* INSERT into blog_posts, whatever the statement supplies: the new row
\* has the next id, the title and body given and both stamps equal to the
\* time of its transaction, and the rows stored before stay as they were.
\* On every UPDATE the rows the statement matches get updated_at set to
\* NOW() and the assigned column changed, created_at and every other
\* column kept; the other rows are unchanged. updated_at is never earlier
\* than created_at.
C24_AuditStamps ==
    /\ [](\A i \in DOMAIN Blog :
             /\ {"created_at", "updated_at"} \subseteq DOMAIN Blog[i]
             /\ Blog[i].created_at <= Blog[i].updated_at)
    /\ [][py' # py /\ py'.k = "insert"
             => (LET new == db'.rel["blog_posts"].rows IN
                 /\ Len(new) = Len(Blog) + 1
                 /\ \A i \in DOMAIN Blog : new[i] = Blog[i]
                 /\ new[Len(new)] =
                       [id |-> sq'[1], created_at |-> runs, updated_at |-> runs]
                       @@ py'.post)]_vars
    /\ [][py' # py /\ py'.k = "update"
             => (LET new == db'.rel["blog_posts"].rows IN
                 /\ DOMAIN new = DOMAIN Blog
                 /\ \A i \in DOMAIN Blog :
                       IF Blog[i].id = py'.id
                       THEN /\ new[i].updated_at = runs
                            /\ new[i].created_at = Blog[i].created_at
                            /\ new[i][py'.col] = "Edited"
                            /\ \A c \in (DOMAIN Blog[i]) \ {py'.col, "updated_at"} :
                                  c \in DOMAIN new[i] /\ new[i][c] = Blog[i][c]
                            /\ DOMAIN new[i] = (DOMAIN Blog[i]) \cup {py'.col}
                       ELSE new[i] = Blog[i])]_vars

\* a post inserted in one transaction and edited in a later one: its
\* created_at is the time of the first, its updated_at the time of the
\* second, next to a post never edited
C24_Witness ==
    /\ phase = "after"
    /\ \E i \in DOMAIN Blog :
          /\ Blog[i].title = "Edited"
          /\ Blog[i].created_at = 1
          /\ Blog[i].updated_at = 2
    /\ \E i \in DOMAIN Blog :
          Blog[i].title # "Edited" /\ Blog[i].created_at = Blog[i].updated_at


\* the step of script 07 that reads into Python variable v
ReadInto(v) == CHOOSE i \in DOMAIN Script07 : Script07[i].op = "read" /\ Script07[i].var = v

\* the step of script 07 that inserts the new article
InsertStep ==
    CHOOSE i \in DOMAIN Script07 :
        Script07[i].op = "exec" /\ Script07[i].s.k = "insert" /\ Script07[i].s.t = "articles"

\* the article of that title is committed
Published(title) ==
    /\ "articles" \in DOMAIN db.rel
    /\ \E i \in DOMAIN db.rel["articles"].rows : db.rel["articles"].rows[i].title = title

\* C25: in script 07, when the INSERT is issued, two connections are checked
\* out: the outer one (engine.connect(), conn), whose transaction the
\* earlier reads opened, and the inner one (engine.begin(), c2) on top of
\* it. When the second search is issued the inner connection has been
\* released and its transaction committed, so the new article is in the
\* committed database, while the outer connection is still in the
\* transaction it was in at the first search; that transaction stays the
\* same one from the first search to the second. The second search
\* returns the new article.
C25_OuterSeesInnerCommit ==
    /\ [](script = 7 /\ InBody /\ pc = InsertStep
             => /\ Len(stack) = 2
                /\ pool.out = 2
                /\ stack[1].kind = "connect" /\ stack[1].intx /\ ~stack[1].dirty
                /\ stack[2].kind = "begin" /\ stack[2].intx
                /\ ~Published("New AI breakthrough"))
    /\ [](script = 7 /\ InBody /\ pc = ReadInto("df_ai2")
             => /\ Len(stack) = 1
                /\ pool.out = 1
                /\ stack[1].kind = "connect" /\ stack[1].intx
                /\ Published("New AI breakthrough"))
    /\ [][script = 7 /\ InBody /\ pc >= ReadInto("df_ai") /\ pc <= ReadInto("df_ai2")
            /\ phase' = "body"
             => (stack'[1].intx /\ stack'[1].t0 = stack[1].t0
                 /\ stack'[1].at = stack[1].at)]_vars
    /\ [][script = 7 /\ InBody /\ pc = ReadInto("df_ai2") /\ py' # py
             => (\E i \in DOMAIN py'["df_ai2"] :
                    py'["df_ai2"][i].title = "New AI breakthrough")]_vars

\* the second search has been answered on the outer connection, still in
\* the transaction of the first search: the inner transaction, the third
\* to commit in this run, had published the article, and the search
\* returned it
C25_Witness ==
    /\ script = 7
    /\ InBody
    /\ pc = ReadInto("df_ai2") + 1
    /\ Len(stack) = 1
    /\ stack[1].kind = "connect"
    /\ stack[1].intx
    /\ Published("New AI breakthrough")
    /\ stat.committed = 3
    /\ "New AI breakthrough" \notin Titles("df_ai")
    /\ "New AI breakthrough" \in Titles("df_ai2")


\* ------------------------------------ the normalisations, on any source rows
\* Blocks 3 and 4 of script 02 run by the steps of the runner on an empty
\* database, with source rows other than the literal ones: every list of
\* at most MaxRaw rows over two keys and two dependent values.
RawOrders ==
    [order_id : {1, 2}, product : {"apple", "banana"}, customer_name : {"Alice", "Bob"}]

RawEmployees ==
    [emp_id : {1, 2}, emp_name : {"Alice"}, dept_id : {10, 20},
     dept_name : {"Engineering", "Marketing"}]

\* the lists of at most n elements of S
ListsOf(S, n) == UNION {[1..k -> S] : k \in 0..n}

InitNorm ==
    /\ db = EmptyDb
    /\ sq = EmptyMap
    /\ runs = MaxRuns
    /\ \/ script = 20 /\ \E l \in ListsOf(RawOrders, MaxRaw) : py = [rows_2nf |-> l]
       \/ script = 30 /\ \E l \in ListsOf(RawEmployees, MaxRaw) : py = [emp_rows |-> l]
    /\ pc = 1
    /\ phase = "body"
    /\ stack = << >>
    /\ exc = NoExc
    /\ msgs = << >>
    /\ stat = ZeroStat
    /\ pool = [idle |-> 0, out |-> 0]
    /\ faults = MaxFaults
    /\ visited = {}
    /\ pre = EmptyDb
    /\ log = << >>

SpecNorm == (Init \/ InitNorm) /\ [][Next]_vars

\* the functional dependency key -> val holds in rows
Determines(rows, key, val) ==
    \A i, j \in DOMAIN rows : rows[i][key] = rows[j][key] => rows[i][val] = rows[j][val]

\* how many times row r occurs in rows
Occurs(rows, r) == Cardinality({i \in DOMAIN rows : rows[i] = r})

\* how many times row r occurs in SELECT * FROM a JOIN b USING (key)
OccursJoined(a, b, key, r) ==
    Cardinality({p \in (DOMAIN a) \X (DOMAIN b) :
                    /\ key \in DOMAIN a[p[1]] /\ key \in DOMAIN b[p[2]]
                    /\ a[p[1]][key] = b[p[2]][key]
                    /\ a[p[1]] @@ b[p[2]] = r})

\* joining the tables one and many of catalog c on key gives the rows of
\* table raw, each as many times as raw holds it, and no other row
Lossless(c, one, many, key, raw) ==
    LET a == c.rel[one].rows
        b == c.rel[many].rows
        r == c.rel[raw].rows
    IN  /\ \A i \in DOMAIN r : OccursJoined(a, b, key, r[i]) = Occurs(r, r[i])
        /\ \A p \in (DOMAIN a) \X (DOMAIN b) :
              key \in DOMAIN a[p[1]] /\ key \in DOMAIN b[p[2]]
              /\ a[p[1]][key] = b[p[2]][key]
                 => \E i \in DOMAIN r : r[i] = a[p[1]] @@ b[p[2]]

\* the INSERT of script 02 that binds Python variable v is at pc, and no
\* unexpected error strikes it
Inserting(v) ==
    /\ script \in {2, 20, 30}
    /\ InBody
    /\ Cur.op = "exec"
    /\ Cur.var = v
    /\ faults' = faults

\* that INSERT is accepted
Inserted(v) == Inserting(v) /\ pc' # pc /\ phase' = "body" /\ exc' = NoExc

\* C26: the decompositions of script 02 are lossless. Once the INSERT into
\* orders_2nf is accepted, customers joined with orders_2nf on order_id
\* gives exactly the rows of orders_unnorm_2nf; once the INSERT into
\* employees_3nf is accepted, employees_3nf joined with departments on
\* dept_id gives exactly the rows of employees_unnormalized. Whenever the
\* rows read from the source table satisfy order_id -> customer_name
\* (dept_id -> dept_name), the INSERT of the de-duplicated records into
\* customers (departments) is accepted.
C26_LosslessDecomposition ==
    /\ [][Inserted("df_products")
             => Lossless(stack'[Len(stack)].view, "customers", "orders_2nf",
                         "order_id", "orders_unnorm_2nf")]_vars
    /\ [][Inserted("emp_records")
             => Lossless(stack'[Len(stack)].view, "departments", "employees_3nf",
                         "dept_id", "employees_unnormalized")]_vars
    /\ [][Inserting("df_customers")
            /\ Determines(py["df_2nf_raw"], "order_id", "customer_name")
             => Inserted("df_customers")]_vars
    /\ [][Inserting("dept_records")
            /\ Determines(py["df_emp_raw"], "dept_id", "dept_name")
             => Inserted("dept_records")]_vars

\* script 02 has read the normalised tables of both decompositions: three
\* customers for five orders, three departments for five employees
C26_Witness ==
    /\ script = 2
    /\ "df_emp" \in DOMAIN py
    /\ Len(py["df_2nf_raw"]) = 5
    /\ Len(py["df_cust"]) = 3
    /\ Len(py["df_prod"]) = 5
    /\ Len(py["df_emp_raw"]) = 5
    /\ Len(py["df_dept"]) = 3
    /\ Len(py["df_emp"]) = 5
    /\ Lossless(Top.view, "departments", "employees_3nf", "dept_id", "employees_unnormalized")


\* ----------------------------------------- one script after another script
\* A script is run on the empty database and ends, completed or aborted by
\* an unexpected error or an interrupt after any statement; then another
\* script of the repository is run on what the first left, and nothing
\* strikes this second run from outside.

\* python NN_script.py, the first script or another one after it
StartCross(n) ==
    /\ phase \in {"idle", "done"}
    /\ \/ runs = 0 /\ faults' = faults
       \/ runs = 1 /\ n # script /\ faults' = MaxFaults
    /\ runs' = runs + 1
    /\ script' = n
    /\ pc' = 1
    /\ phase' = "body"
    /\ stack' = << >>
    /\ exc' = NoExc
    /\ py' = EmptyMap
    /\ msgs' = << >>
    /\ stat' = ZeroStat
    /\ pool' = [idle |-> 0, out |-> 0]
    /\ visited' = {}
    /\ pre' = db
    /\ UNCHANGED << db, sq, log >>

NextCross ==
    \/ \E n \in Scripts : StartCross(n)
    \/ Enter
    \/ TransBegin
    \/ ExecStmt
    \/ ReadSql
    \/ PyStep
    \/ Except
    \/ TransEnd
    \/ ExitScope
    \/ Fault
    \/ Unwind
    \/ TopExcept
    \/ Escape
    \/ Dispose

SpecCross == Init /\ [][NextCross]_vars

\* C27: the scripts are independent of one another: a script run on what a
\* run of another script left behind, completed or aborted after any
\* statement, raises no error that leaves its with block (every statement
\* of its setup is accepted), also when both create a table of the same
\* name.
C27_IndependentOfOtherScripts == runs = 2 => phase # "raise" /\ ~TopErr


\* the names the statements of script n drop
Dropped(n) ==
    {Prog(n)[i].s.t : i \in {j \in DOMAIN Prog(n) :
                                /\ Prog(n)[j].op = "exec"
                                /\ Prog(n)[j].s.k \in {"drop_table", "drop_view",
                                                       "drop_matview"}}}
    \cup {Prog(n)[i].s.n : i \in {j \in DOMAIN Prog(n) :
                                     /\ Prog(n)[j].op = "exec"
                                     /\ Prog(n)[j].s.k \in {"drop_index", "drop_function"}}}

\* what depends on relation o in catalog c: the views that select from
\* it, the tables that reference it and the indexes on it
DependOn(c, o) ==
    ViewsOn(c, o)
    \cup {t \in DOMAIN c.rel : t # o /\ \E fk \in c.rel[t].fks : fk.ref = o}
    \cup {i \in DOMAIN c.idx : c.idx[i] = o}

\* the statement at pc is a DROP of a relation that exists
DroppingRelation ==
    /\ InBody
    /\ Cur.op = "exec"
    /\ Cur.s.k \in {"drop_table", "drop_view", "drop_matview"}
    /\ Cur.s.t \in DOMAIN CurView.rel

\* the statement at pc creates an object of kind k
Creating(k) == InBody /\ Cur.op = "exec" /\ Cur.s.k = k

\* the messages of the errors a DROP or CREATE can be refused with
DdlErrors ==
    {"dependent_objects_still_exist", "duplicate_table", "duplicate_function",
     "duplicate_object", "undefined_table", "undefined_function", "wrong_object_type"}

\* C28: in every run of a script, first or repeated: when a DROP of a
\* relation is issued, none of the objects depending on it that the script
\* drops by a statement of its own is left (employees before departments,
\* employees_3nf before departments, the views before products, the index
\* before its table), and when DROP FUNCTION is issued no trigger uses the
\* function; when a CREATE of a dependent object is issued, what it
\* depends on exists (the table of a view, of an index, of a trigger, of a
\* foreign key, the function of a trigger). No statement is refused for an
\* object that is missing, exists already or is depended on.
C28_DependentsFirst ==
    /\ DroppingRelation => DependOn(CurView, Cur.s.t) \cap Dropped(script) = {}
    /\ Creating("drop_function")
          => \A g \in DOMAIN CurView.trg : CurView.trg[g].fn # Cur.s.n
    /\ Creating("create_view") => Cur.s.def.src \in DOMAIN CurView.rel
    /\ Creating("create_table")
          => \A fk \in Cur.s.def.fks : fk.ref \in DOMAIN CurView.rel
    /\ Creating("create_index") => Cur.s.t \in DOMAIN CurView.rel
    /\ Creating("create_trigger")
          => Cur.s.t \in DOMAIN CurView.rel /\ Cur.s.f \in DOMAIN CurView.fn
    /\ exc.msg \notin DdlErrors
    /\ \A i \in DOMAIN msgs : msgs[i].msg \notin DdlErrors

\* script 08, started again after a run that was aborted with the views in
\* place, has dropped both views and is about to drop products
C28_Witness ==
    /\ script = 8
    /\ runs = 2
    /\ DroppingRelation
    /\ Cur.s.t = "products"
    /\ {"cheap_products_view", "cheap_products_mv"} \subseteq DOMAIN pre.rel
    /\ DependOn(CurView, "products") = {}
    /\ ViewsOn(pre, "products") = {"cheap_products_view", "cheap_products_mv"}


\* the ALTER TABLE of step [2-8] of script 03 is accepted
Altered03 ==
    /\ script = 3
    /\ InBody
    /\ Cur.op = "exec"
    /\ Cur.s.k = "alter_default"
    /\ pc' # pc
    /\ phase' = "body"
    /\ exc' = NoExc

\* the default of column c of table tn in catalog d
DefaultOf(d, tn, c) ==
    {d.rel[tn].cols[i].dv : i \in {j \in DOMAIN d.rel[tn].cols :
                                      d.rel[tn].cols[j].name = c}}

\* C29: altering the default of test_defaults.department to 'Support'
\* changes only rows inserted afterwards. The accepted ALTER leaves the
\* stored rows of test_defaults as they were (the default was 'General'
\* before and is 'Support' after, the other columns keep their defaults);
\* the rows read at [2-7] are Alice, Bob and Anonymous with departments
\* Engineering, General, General; the rows read at [2-10] are those same
\* rows, unchanged, followed by Eve with department 'Support': the INSERT accepted
\* after the ALTER omits department and stores 'Support', leaving the
\* earlier rows as they were.
C29_AlterDefaultFrame ==
    /\ [][Altered03
             => (LET old == CurView
                     new == stack'[Len(stack)].view
                 IN  /\ new.rel["test_defaults"].rows = old.rel["test_defaults"].rows
                     /\ DefaultOf(old, "test_defaults", "department") = {"General"}
                     /\ DefaultOf(new, "test_defaults", "department") = {"Support"}
                     /\ DefaultOf(new, "test_defaults", "name")
                           = DefaultOf(old, "test_defaults", "name")
                     /\ sq' = sq)]_vars
    /\ [][script = 3 /\ InBody /\ Cur.op = "exec" /\ Cur.s.k = "insert"
            /\ Cur.s.t = "test_defaults"
            /\ DefaultOf(CurView, "test_defaults", "department") = {"Support"}
            /\ pc' # pc /\ phase' = "body" /\ exc' = NoExc
             => (LET old == CurView.rel["test_defaults"].rows
                     new == stack'[Len(stack)].view.rel["test_defaults"].rows
                 IN  /\ "department" \notin Cur.s.cols
                     /\ Len(new) = Len(old) + 1
                     /\ \A i \in DOMAIN old : new[i] = old[i]
                     /\ new[Len(new)].department = "Support")]_vars
    /\ [](script = 3 /\ "df_def" \in DOMAIN py
             => ColOf("df_def", "department") = << "Engineering", "General", "General" >>)
    /\ [](script = 3 /\ "df_final" \in DOMAIN py
             => /\ Len(py["df_final"]) = Len(py["df_def"]) + 1
                /\ \A i \in DOMAIN py["df_def"] : py["df_final"][i] = py["df_def"][i]
                /\ py["df_final"][Len(py["df_final"])].name = "Eve"
                /\ py["df_final"][Len(py["df_final"])].department = "Support")

\* script 03 has read the final rows: Bob and Anonymous still hold
\* 'General', Eve holds 'Support'
C29_Witness ==
    /\ script = 3
    /\ "df_final" \in DOMAIN py
    /\ ColOf("df_final", "name") = << "Alice", "Bob", "Anonymous", "Eve" >>
    /\ ColOf("df_final", "department")
          = << "Engineering", "General", "General", "Support" >>
====
